---- MODULE Spec2Model ----
(***************************************************************************)
(* A model of the stage-optimisation code of Stage_Opt:                    *)
(*   payload_optimization.py   physics, objective, driver, comparison run  *)
(*   src/optimization/solvers.py   cache-backed evaluation, solvers        *)
(*   src/optimization/solvers/de_solver.py   DE projection and loop        *)
(*                                                                         *)
(* Numbers.  Python floats are modelled by a decimal fixed-point format:   *)
(* the integer v stands for the real v / FP.  The IEEE special values      *)
(* +inf, -inf and NaN are kept as three reserved codes and every           *)
(* arithmetic operator below propagates them the way numpy does.           *)
(* Velocities are measured in the unit  9.81 * ln(2) * (one ISP unit),     *)
(* so that exp(dv / (9.81 * ISP)) = 2 ^ (dv / ISP).                        *)
(***************************************************************************)
EXTENDS Integers, Sequences, FiniteSets, TLC

VARIABLES
    call,       \* the last call of a pure function: its name, arguments, result
    cache,      \* OptimizationCache: quantized candidate -> fitness
    addLog,     \* history: the (candidate, fitness) pairs handed to cache.add
    evalLog,    \* history: the cache-backed evaluations made, oldest first
    stages,     \* the stage list read from the input file
    cfgBounds,  \* CONFIG["optimization"]["bounds"]
    mode,       \* "main": the __main__ comparison run; "call": one call of optimize_stages
    methods,    \* the method names __main__ has still to run
    calls,      \* history: the finished optimize_stages calls
    results,    \* __main__'s results list
    errLog,     \* the errors logged by __main__'s except clause, per method
    exitStatus, \* "running", "ok" (report written) or "exit1" (sys.exit(1))
    ga,         \* two runs of a pymoo GA solver on the same inputs
    loop        \* one run of an iterative solver: adaptive GA, DE or PSO

vars == <<call, cache, addLog, evalLog, stages, cfgBounds, mode, methods,
          calls, results, errLog, exitStatus, ga, loop>>

physVars   == <<call>>
gaVars     == <<ga>>
loopVars   == <<loop>>
cacheVars  == <<cache, addLog, evalLog>>
driverVars == <<stages, cfgBounds, mode, methods, calls, results, errLog,
                exitStatus>>

-----------------------------------------------------------------------------
(* The number format *)

FP   == 10^3                \* v stands for v / FP
FMax == 2 * 10^9            \* largest finite magnitude of the format
PInf == 2 * (2^30 - 1) + 1    \* +inf, the largest integer
NInf == -PInf               \* -inf
NaN  == PInf - 1            \* not a number
ExpMaxK == 10               \* 2^k overflows to +inf for k > ExpMaxK

IsNaN(v)    == v = NaN
IsInf(v)    == v = PInf \/ v = NInf
IsFinite(v) == ~IsNaN(v) /\ ~IsInf(v)
Abs(v)      == IF v < 0 THEN -v ELSE v
Sign(v)     == IF v < 0 THEN -1 ELSE IF v > 0 THEN 1 ELSE 0
Min2(a, b)  == IF a <= b THEN a ELSE b
Max2(a, b)  == IF a >= b THEN a ELSE b

\* Comparisons: every comparison with NaN is false.
FLe(a, b) == ~IsNaN(a) /\ ~IsNaN(b) /\ a <= b
FLt(a, b) == ~IsNaN(a) /\ ~IsNaN(b) /\ a < b
FGt(a, b) == FLt(b, a)

FNeg(a) == IF IsNaN(a) THEN NaN ELSE -a

\* Saturation of a finite result that left the format's range.
FRange(v) == IF v > FMax THEN PInf ELSE IF v < -FMax THEN NInf ELSE v

FAdd(a, b) ==
    IF IsNaN(a) \/ IsNaN(b) THEN NaN
    ELSE IF IsInf(a) /\ IsInf(b) THEN (IF a = b THEN a ELSE NaN)
    ELSE IF IsInf(a) THEN a
    ELSE IF IsInf(b) THEN b
    ELSE IF a > 0 /\ b > FMax - a THEN PInf
    ELSE IF a < 0 /\ b < -FMax - a THEN NInf
    ELSE a + b

FSub(a, b) == FAdd(a, FNeg(b))

\* Product of two finite magnitudes, rounded toward zero; PInf on overflow.
\* Large operands lose their low digits first, as a float product does.
MulMag(x, y) ==
    LET big   == Max2(x, y)
        small == Min2(x, y)
    IN  IF big <= 40000 THEN (big * small) \div FP
        ELSE LET q == big \div FP
             IN  IF small > FMax \div q THEN PInf ELSE q * small

FMul(a, b) ==
    IF IsNaN(a) \/ IsNaN(b) THEN NaN
    ELSE IF IsInf(a) \/ IsInf(b)
         THEN (IF a = 0 \/ b = 0 THEN NaN
               ELSE IF Sign(a) * Sign(b) > 0 THEN PInf ELSE NInf)
    ELSE LET m == MulMag(Abs(a), Abs(b))
         IN  IF m = PInf THEN (IF Sign(a) * Sign(b) > 0 THEN PInf ELSE NInf)
             ELSE Sign(a) * Sign(b) * m

\* 1.0 / r on numpy floats: 1/0 is inf (a warning, no exception).
FRecip(r) ==
    IF IsNaN(r) THEN NaN
    ELSE IF IsInf(r) THEN 0
    ELSE IF r = 0 THEN PInf
    ELSE Sign(r) * ((FP * FP) \div Abs(r))

\* a / b for a finite or special a and an integer count or float b.
FDiv(a, b) ==
    IF IsNaN(a) \/ IsNaN(b) THEN NaN
    ELSE IF IsInf(a) /\ IsInf(b) THEN NaN
    ELSE IF IsInf(a) THEN (IF b < 0 THEN FNeg(a) ELSE a)
    ELSE IF IsInf(b) THEN 0
    ELSE IF b = 0 THEN (IF a = 0 THEN NaN ELSE IF a > 0 THEN PInf ELSE NInf)
    ELSE LET n == Abs(a)
             d == Abs(b)
             m == IF n <= 2 * 10^6 THEN (n * FP) \div d
                  ELSE FRange((n \div d) * FP)
         IN  IF m = PInf THEN (IF Sign(a) * Sign(b) > 0 THEN PInf ELSE NInf)
             ELSE Sign(a) * Sign(b) * m

FAbs(a) == IF IsNaN(a) THEN NaN ELSE Abs(a)

RECURSIVE FSumFrom(_, _)
FSumFrom(s, i) == IF i > Len(s) THEN 0 ELSE FAdd(s[i], FSumFrom(s, i + 1))
FSum(s) == FSumFrom(s, 1)                       \* np.sum

RECURSIVE FProdFrom(_, _)
FProdFrom(s, i) == IF i > Len(s) THEN FP ELSE FMul(s[i], FProdFrom(s, i + 1))
FProd(s) == FProdFrom(s, 1)                     \* np.prod

RECURSIVE Pow2(_)
Pow2(k) == IF k <= 0 THEN 1 ELSE 2 * Pow2(k - 1)

\* 2 ^ (a / FP): exact at the integers and linear between two of them;
\* overflows to +inf above 2 ^ ExpMaxK and underflows to 0.
Exp2(a) ==
    IF IsNaN(a) THEN NaN
    ELSE IF a = PInf THEN PInf
    ELSE IF a = NInf THEN 0
    ELSE LET k == a \div FP
             f == a % FP
         IN  IF k > ExpMaxK THEN PInf
             ELSE IF k >= 0 THEN (FP + f) * Pow2(k)
             ELSE IF k < -20 THEN 0
             ELSE (FP + f) \div Pow2(-k)

-----------------------------------------------------------------------------
(* Physics and objective: payload_optimization.py *)

G0_981 == 1     \* the literal 9.81 of calculate_mass_ratios, in model units
Tenth  == FP \div 10                            \* the literal 0.1
Sentinel == 10^6 * FP                           \* the literal 1e6

\* dvi / (9.81 * ISP[i]) on numpy floats: a zero divisor gives inf or nan.
ExpArg(dvi, g0, isp) ==
    IF IsNaN(dvi) THEN NaN
    ELSE IF g0 * isp = 0
         THEN (IF dvi = 0 THEN NaN ELSE IF dvi > 0 THEN PInf ELSE NInf)
    ELSE IF IsInf(dvi) THEN (IF g0 * isp < 0 THEN FNeg(dvi) ELSE dvi)
    ELSE dvi \div (g0 * isp)

\* ratio = np.exp(dvi / (9.81 * ISP[i])) - EPSILON[i]; an exception inside the
\* loop (ISP or EPSILON shorter than dv) is caught and answered [inf] * len(dv).
calculate_mass_ratios(dv, ISP, EPSILON) ==
    IF Len(ISP) < Len(dv) \/ Len(EPSILON) < Len(dv)
    THEN [i \in 1..Len(dv) |-> PInf]
    ELSE [i \in 1..Len(dv) |->
             FSub(Exp2(ExpArg(dv[i], G0_981, ISP[i])), EPSILON[i])]

\* 0.0 if any ratio <= 0, else np.prod(1.0 / mass_ratios).
calculate_payload_fraction(mass_ratios) ==
    IF \E i \in 1..Len(mass_ratios) : FLe(mass_ratios[i], 0)
    THEN 0
    ELSE FProd([i \in 1..Len(mass_ratios) |-> FRecip(mass_ratios[i])])

\* np.prod(calculate_mass_ratios(dv, ISP, EPSILON)), with no test of the sign.
calculate_payload_mass(dv, ISP, EPSILON) ==
    FProd(calculate_mass_ratios(dv, ISP, EPSILON))

\* penalty += 100.0 * (0.1 - ratio)**2 for every ratio <= 0.1
RECURSIVE RatioPenaltyFrom(_, _)
RatioPenaltyFrom(mr, i) ==
    IF i > Len(mr) THEN 0
    ELSE LET d == FSub(Tenth, mr[i])
             p == IF FLe(mr[i], Tenth) THEN FMul(100 * FP, FMul(d, d)) ELSE 0
         IN  FAdd(p, RatioPenaltyFrom(mr, i + 1))

\* float(-payload_fraction + penalty).  Both callees catch their own
\* exceptions, so nothing in the try block raises and the except clause
\* (return 1e6) is never entered for an array argument.
payload_fraction_objective(dv, G0, ISP, EPSILON) ==
    LET mass_ratios == calculate_mass_ratios(dv, ISP, EPSILON)
        payload_fraction == calculate_payload_fraction(mass_ratios)
    IN  FAdd(FNeg(payload_fraction), RatioPenaltyFrom(mass_ratios, 1))

\* base_obj + 1e3 * abs(np.sum(dv) - TOTAL_DELTA_V)
objective_with_penalty(dv, G0, ISP, EPSILON, total) ==
    LET base_obj == payload_fraction_objective(dv, G0, ISP, EPSILON)
        constraint_violation == FAbs(FSub(FSum(dv), total))
    IN  FAdd(base_obj, FMul(10^3 * FP, constraint_violation))

-----------------------------------------------------------------------------
(* Physics of src/optimization/solvers.py *)

\* mass_ratio = np.exp(-dv / (G0 * isp))
SolversMassRatio(dvi, g0, isp) == Exp2(FNeg(ExpArg(dvi, g0, isp)))

\* lambda_val = mass_ratio - eps
SolversLambda(dvi, g0, isp, eps) == FSub(SolversMassRatio(dvi, g0, isp), eps)

\* objective.calculate_stage_ratios: (stage_ratios, mass_ratios) of a candidate
calculate_stage_ratios(dv, G0, ISP, EPSILON) ==
    [stage_ratios |-> [i \in 1..Len(dv) |-> SolversLambda(dv[i], G0, ISP[i], EPSILON[i])],
     mass_ratios  |-> [i \in 1..Len(dv) |-> SolversMassRatio(dv[i], G0, ISP[i])]]

\* payload_fraction = float(np.prod(stage_ratios)) over the lambda_val of every
\* stage, as solve_with_slsqp, solve_with_ga and solve_with_pso report it
StageLambdaProduct(dv, G0, ISP, EPSILON) ==
    FProd([i \in 1..Len(dv) |-> SolversLambda(dv[i], G0, ISP[i], EPSILON[i])])

\* payload_fraction = np.prod(stage_ratios), as _evaluate and the solvers take it
SolversPayloadFraction(dv, G0, ISP, EPSILON) ==
    FProd(calculate_stage_ratios(dv, G0, ISP, EPSILON).stage_ratios)


-----------------------------------------------------------------------------
(* Inputs of the pure functions *)

\* TOTAL_DELTA_V, the global read_input_json sets from the input file.
TOTAL_DELTA_V == (12 * FP) \div 10

MaxStages == 2                  \* longest stage list the model draws

\* Candidates: per-stage delta-v on a grid, from 0 to a very large value.
DvGrid == {0, FP \div 2, FP, 4 * FP, 12 * FP, 30 * FP}
IspGrid == {1, 2}
EpsGrid == {FP \div 10, FP \div 2}
\* Mass ratios handed to calculate_payload_fraction.
RatioGrid == {-(FP \div 4), 0, FP \div 4, FP \div 2, FP, 2 * FP}

VecOf(S, n) == [1..n -> S]
VecsUpTo(S, n) == UNION {VecOf(S, k) : k \in 1..n}
\* A vector cut to its first n components.
Take(s, n) == [i \in 1..n |-> s[i]]

IdleCall == [fn |-> "none", arg |-> <<>>, ISP |-> <<>>, EPSILON |-> <<>>,
             mr |-> <<>>, bounds |-> <<>>, ret |-> 0]

\* A well-formed argument triple (dv, ISP, EPSILON) of equal lengths.
PhysArgs ==
    UNION {VecOf(DvGrid, n) \X VecOf(IspGrid, n) \X VecOf(EpsGrid, n) :
               n \in 1..MaxStages}
\* A malformed one: a NaN component, or ISP one entry short.
BadArgs ==
    UNION {VecOf(DvGrid \cup {NaN}, n) \X VecsUpTo(IspGrid, n) \X VecOf(EpsGrid, n) :
               n \in 1..MaxStages}
WellFormed(dv, ISP, EPSILON) ==
    /\ Len(ISP) = Len(dv) /\ Len(EPSILON) = Len(dv)
    /\ \A i \in 1..Len(dv) : IsFinite(dv[i])

CallMassRatios ==
    /\ call = IdleCall
    /\ \E a \in PhysArgs :
        call' = [fn |-> "calculate_mass_ratios", arg |-> a[1], ISP |-> a[2],
                 EPSILON |-> a[3], mr |-> <<>>, bounds |-> <<>>,
                 ret |-> calculate_mass_ratios(a[1], a[2], a[3])]
    /\ UNCHANGED <<cacheVars, driverVars, gaVars, loopVars>>

CallPayloadFraction ==
    /\ call = IdleCall
    /\ \E m \in VecsUpTo(RatioGrid, MaxStages) :
        call' = [fn |-> "calculate_payload_fraction", arg |-> m, ISP |-> <<>>,
                 EPSILON |-> <<>>, mr |-> m, bounds |-> <<>>,
                 ret |-> calculate_payload_fraction(m)]
    /\ UNCHANGED <<cacheVars, driverVars, gaVars, loopVars>>

CallPayloadMass ==
    /\ call = IdleCall
    /\ \E a \in PhysArgs :
        call' = [fn |-> "calculate_payload_mass", arg |-> a[1], ISP |-> a[2],
                 EPSILON |-> a[3],
                 mr |-> calculate_mass_ratios(a[1], a[2], a[3]), bounds |-> <<>>,
                 ret |-> calculate_payload_mass(a[1], a[2], a[3])]
    /\ UNCHANGED <<cacheVars, driverVars, gaVars, loopVars>>

CallObjective ==
    /\ call = IdleCall
    /\ \E a \in BadArgs :
        call' = [fn |-> "payload_fraction_objective", arg |-> a[1], ISP |-> a[2],
                 EPSILON |-> a[3],
                 mr |-> calculate_mass_ratios(a[1], a[2], a[3]), bounds |-> <<>>,
                 ret |-> payload_fraction_objective(a[1], G0_981, a[2], a[3])]
    /\ UNCHANGED <<cacheVars, driverVars, gaVars, loopVars>>

CallObjectiveWithPenalty ==
    /\ call = IdleCall
    /\ \E a \in BadArgs :
        call' = [fn |-> "objective_with_penalty", arg |-> a[1], ISP |-> a[2],
                 EPSILON |-> a[3],
                 mr |-> calculate_mass_ratios(a[1], a[2], a[3]), bounds |-> <<>>,
                 ret |-> objective_with_penalty(a[1], G0_981, a[2], a[3],
                                                TOTAL_DELTA_V)]
    /\ UNCHANGED <<cacheVars, driverVars, gaVars, loopVars>>

CallSolversStageRatios ==
    /\ call = IdleCall
    /\ \E a \in PhysArgs :
        LET r == calculate_stage_ratios(a[1], G0_981, a[2], a[3])
        IN  call' = [fn |-> "solvers_stage_ratios", arg |-> a[1], ISP |-> a[2],
                     EPSILON |-> a[3], mr |-> r.stage_ratios, bounds |-> <<>>,
                     ret |-> SolversPayloadFraction(a[1], G0_981, a[2], a[3])]
    /\ UNCHANGED <<cacheVars, driverVars, gaVars, loopVars>>


-----------------------------------------------------------------------------
(* The driver: optimize_stages and the __main__ comparison run *)

\* Stage records of the input file; the last two break the data model
\* (ISP must be positive, the structural fraction below 1).
GoodStages == {[G0 |-> G0_981, ISP |-> 2, EPSILON |-> FP \div 10],
               [G0 |-> G0_981, ISP |-> 2, EPSILON |-> (95 * FP) \div 100]}
BadStages  == {[G0 |-> G0_981, ISP |-> 0, EPSILON |-> FP \div 10],
               [G0 |-> G0_981, ISP |-> 2, EPSILON |-> FP]}
StageLists == {<<>>} \cup VecsUpTo(GoodStages \cup BadStages, MaxStages)

ValidStage(st) == st.ISP > 0 /\ st.EPSILON >= 0 /\ st.EPSILON < FP
ValidStages(sl) == Len(sl) > 0 /\ \A i \in 1..Len(sl) : ValidStage(sl[i])

\* CONFIG["optimization"]["bounds"]: max_dv_factor (a fraction of the total)
\* and min_dv (a delta-v).  The second one puts min_dv above max_dv.
BoundsConfigs == {[max_dv_factor |-> FP, min_dv |-> 0],
                  [max_dv_factor |-> (8 * FP) \div 10, min_dv |-> FP]}

\* The names a caller may pass as method.
MethodNames == {"SLSQP", "slsqp", "GA", "BASIN-HOPPING", "PSO", "ADAPTIVE-GA", ""}
MainMethods == <<"SLSQP", "GA", "BASIN-HOPPING">>

\* str.upper on the names above.
Upper(m) == IF m = "slsqp" THEN "SLSQP" ELSE m

\* initial_guess = np.ones(n) * required_dv / n  (an empty array for n = 0)
InitialGuess(n, required_dv) == [i \in 1..n |-> FDiv(required_dv, n * FP)]

\* bounds[i] = (min_dv, required_dv * max_dv_factor), the same for every stage
DriverBounds(n, cfg, required_dv) ==
    [i \in 1..n |-> [lo |-> cfg.min_dv, hi |-> FMul(required_dv, cfg.max_dv_factor)]]

Feasible(bounds) == \A i \in 1..Len(bounds) : bounds[i].lo <= bounds[i].hi

\* The names the if / elif chain of optimize_stages compares method.upper() with.
DispatchedNames == {"SLSQP", "GA", "BASIN-HOPPING"}

\* A chain whose last branch is a default solver instead of the raise.
SolverOfDefault(method) ==
    IF Upper(method) = "GA" THEN "solve_with_ga"
    ELSE IF Upper(method) = "BASIN-HOPPING" THEN "solve_with_basin_hopping"
    ELSE "solve_with_slsqp"

\* The if / elif chain of optimize_stages: the solver a method name selects,
\* "none" for the else branch that raises NotImplementedError.
SolverOf(method) ==
    IF Upper(method) = "SLSQP" THEN "solve_with_slsqp"
    ELSE IF Upper(method) = "GA" THEN "solve_with_ga"
    ELSE IF Upper(method) = "BASIN-HOPPING" THEN "solve_with_basin_hopping"
    ELSE "none"

NoOutcome == [kind |-> "raise", x |-> <<>>, none |-> FALSE, success |-> FALSE]

\* What the library minimizer hands back: it raises, or it returns a vector
\* (None for pymoo's res.X when it found nothing) and a success flag.
SolverVectors(n) == {[i \in 1..n |-> (4 * FP) \div 10], [i \in 1..n |-> (8 * FP) \div 10],
                     [i \in 1..n |-> IF i = 1 THEN 0 ELSE (12 * FP) \div 10]}
LibraryOutcomes(n) ==
    {NoOutcome}
    \cup {[kind |-> "return", x |-> v, none |-> FALSE, success |-> ok] :
              v \in SolverVectors(n), ok \in BOOLEAN}
    \cup {[kind |-> "return", x |-> <<>>, none |-> TRUE, success |-> FALSE]}

\* The outcomes a solver can have on bounds built for n stages.  pymoo's res.X
\* is None only for the GA; with no stage the GA's bounds[:, 0] raises IndexError.
OutcomesOf(solver, n) ==
    {o \in LibraryOutcomes(n) :
        /\ o.none => solver = "solve_with_ga"
        /\ (solver = "solve_with_ga" /\ n = 0) => o.kind = "raise"}

\* The vector each solve_with_* returns for a library outcome that returned:
\* result.x for SLSQP and basin-hopping, whatever result.success says; the GA
\* returns initial_guess when res.X is None or res.success is false.
SolverResult(solver, o, initial_guess) ==
    IF solver = "solve_with_ga" /\ (o.none \/ ~o.success)
    THEN initial_guess
    ELSE o.x

\* The results dict optimize_stages builds from optimal_dv.
ResultRecord(method, optimal_dv, sl, required_dv) ==
    LET G0      == [i \in 1..Len(sl) |-> sl[i].G0]
        ISP     == [i \in 1..Len(sl) |-> sl[i].ISP]
        EPSILON == [i \in 1..Len(sl) |-> sl[i].EPSILON]
    IN  [method |-> method,
         payload_fraction |-> FNeg(payload_fraction_objective(optimal_dv, G0, ISP, EPSILON)),
         dv |-> optimal_dv,
         mass_ratios |-> calculate_mass_ratios(optimal_dv, ISP, EPSILON),
         solution |-> optimal_dv,
         error |-> FAbs(FSub(FSum(optimal_dv), required_dv))]

NoResult == [method |-> "", payload_fraction |-> 0, dv |-> <<>>,
             mass_ratios |-> <<>>, solution |-> <<>>, error |-> 0]

\* One finished call of optimize_stages(stages, method), as its caller sees it.
\*   solver:  the solve_with_* function dispatched, "none" if none was
\*   library: what the library minimizer handed to the solve_with_* function
\*   outcome: "result" (a results dict is returned) or "error" (it raised)
\*   error:   the exception raised, and the method name its message carries
OptimizeStages(sl, cfg, method, o) ==
    LET n             == Len(sl)
        required_dv   == TOTAL_DELTA_V
        initial_guess == InitialGuess(n, required_dv)
        bounds        == DriverBounds(n, cfg, required_dv)
        solver        == SolverOf(method)
    IN  IF solver = "none"
        THEN [method |-> method, initial_guess |-> initial_guess, bounds |-> bounds,
              solver |-> "none", library |-> NoOutcome, success |-> FALSE, outcome |-> "error",
              error |-> [type |-> "NotImplementedError", names |-> method],
              result |-> NoResult]
        ELSE IF o.kind = "raise"
        THEN [method |-> method, initial_guess |-> initial_guess, bounds |-> bounds,
              solver |-> solver, library |-> o, success |-> FALSE, outcome |-> "error",
              error |-> [type |-> "SolverError", names |-> ""],
              result |-> NoResult]
        ELSE [method |-> method, initial_guess |-> initial_guess, bounds |-> bounds,
              solver |-> solver, library |-> o, success |-> o.success, outcome |-> "result",
              error |-> [type |-> "", names |-> ""],
              result |-> ResultRecord(method, SolverResult(solver, o, initial_guess),
                                      sl, required_dv)]

DriverInit ==
    /\ stages \in StageLists
    /\ cfgBounds \in BoundsConfigs
    /\ mode \in {"main", "call"}
    /\ methods = IF mode = "main" THEN MainMethods ELSE <<>>
    /\ calls = <<>>
    /\ results = <<>>
    /\ errLog = <<>>
    /\ exitStatus = "running"

\* A caller other than __main__ calls optimize_stages once, with any method name;
\* the exception, if any, is the caller's.
\* The call raises NotImplementedError: no solver is entered.
CallUnsupported ==
    /\ mode = "call" /\ calls = <<>>
    /\ \E m \in MethodNames :
        /\ SolverOf(m) = "none"
        /\ calls' = <<OptimizeStages(stages, cfgBounds, m, NoOutcome)>>
    /\ UNCHANGED <<stages, cfgBounds, mode, methods, results, errLog, exitStatus>>
    /\ UNCHANGED <<physVars, cacheVars, gaVars, loopVars>>

\* The call enters a solver, which raises or returns.
CallSupported ==
    /\ mode = "call" /\ calls = <<>>
    /\ \E m \in MethodNames :
        /\ SolverOf(m) # "none"
        /\ \E o \in OutcomesOf(SolverOf(m), Len(stages)) :
               calls' = <<OptimizeStages(stages, cfgBounds, m, o)>>
    /\ UNCHANGED <<stages, cfgBounds, mode, methods, results, errLog, exitStatus>>
    /\ UNCHANGED <<physVars, cacheVars, gaVars, loopVars>>

\* One iteration of __main__'s loop: optimize_stages(stages, method) returned
\* and its result is appended to results.
MainMethodReturns ==
    /\ mode = "main" /\ methods # <<>> /\ exitStatus = "running"
    /\ \E o \in OutcomesOf(SolverOf(Head(methods)), Len(stages)) :
        LET c == OptimizeStages(stages, cfgBounds, Head(methods), o)
        IN  /\ c.outcome = "result"
            /\ calls' = Append(calls, c)
            /\ results' = Append(results, c.result)
    /\ methods' = Tail(methods)
    /\ UNCHANGED <<stages, cfgBounds, mode, errLog, exitStatus>>
    /\ UNCHANGED <<physVars, cacheVars, gaVars, loopVars>>

\* One iteration of __main__'s loop: optimize_stages raised; the except clause
\* logs the method and the loop continues.
MainMethodFails ==
    /\ mode = "main" /\ methods # <<>> /\ exitStatus = "running"
    /\ \E o \in OutcomesOf(SolverOf(Head(methods)), Len(stages)) :
        LET c == OptimizeStages(stages, cfgBounds, Head(methods), o)
        IN  /\ c.outcome = "error"
            /\ calls' = Append(calls, c)
            /\ errLog' = Append(errLog, c.method)
    /\ methods' = Tail(methods)
    /\ UNCHANGED <<stages, cfgBounds, mode, results, exitStatus>>
    /\ UNCHANGED <<physVars, cacheVars, gaVars, loopVars>>

\* generate_report(results) after the loop.  plot_dv_breakdown reads
\* results[0]['dv']: with an empty list that is an IndexError, which
\* generate_report re-raises and __main__ answers with sys.exit(1).
GenerateReportFails ==
    /\ mode = "main" /\ methods = <<>> /\ exitStatus = "running"
    /\ results = <<>>
    /\ exitStatus' = "exit1"
    /\ UNCHANGED <<stages, cfgBounds, mode, methods, calls, results, errLog>>
    /\ UNCHANGED <<physVars, cacheVars, gaVars, loopVars>>

\* generate_report(results) with at least one result: the report is written.
GenerateReport ==
    /\ mode = "main" /\ methods = <<>> /\ exitStatus = "running"
    /\ results # <<>>
    /\ exitStatus' = "ok"
    /\ UNCHANGED <<stages, cfgBounds, mode, methods, calls, results, errLog>>
    /\ UNCHANGED <<physVars, cacheVars, gaVars, loopVars>>


-----------------------------------------------------------------------------
(* The evaluation cache and the cache-backed objectives of solvers.py *)

\* The cache rounds every component of a candidate to a fixed number of
\* decimals; QuantStep is the value of the last decimal kept.
QuantStep == FP \div 10

\* np.round: to the nearest multiple of QuantStep, a tie to the even one.
RoundTo(v, step) ==
    LET q == v \div step
        r == v % step
    IN  IF 2 * r < step THEN q * step
        ELSE IF 2 * r > step THEN (q + 1) * step
        ELSE IF q % 2 = 0 THEN q * step ELSE (q + 1) * step

Quantize(x) == [i \in 1..Len(x) |-> RoundTo(x[i], QuantStep)]

EmptyCache == [k \in {} |-> 0]

\* get_cached_fitness(x): the fitness stored under x's key, or None.
CacheGet(c, x) ==
    IF Quantize(x) \in DOMAIN c
    THEN [found |-> TRUE, fitness |-> c[Quantize(x)]]
    ELSE [found |-> FALSE, fitness |-> 0]

\* add(x, fitness): store under x's key, replacing what was there.
CacheAdd(c, x, fitness) ==
    [k \in DOMAIN c \cup {Quantize(x)} |->
        IF k = Quantize(x) THEN fitness ELSE c[k]]

\* config['optimization']['bounds']['stage_constraints'], as fractions
StageConstraints == [first_stage_min |-> (15 * FP) \div 100,
                     first_stage_max |-> (80 * FP) \div 100,
                     other_stages_min |-> FP \div 100]

RECURSIVE StagePenaltyFrom(_, _, _, _)
StagePenaltyFrom(dv, total, sc, i) ==
    IF i > Len(dv) THEN 0
    ELSE LET min_dv == FMul(IF i = 1 THEN sc.first_stage_min ELSE sc.other_stages_min, total)
             max_dv == FMul(sc.first_stage_max, total)
             p == IF FLt(dv[i], min_dv) THEN FAbs(FSub(dv[i], min_dv))
                  ELSE IF i = 1 /\ FGt(dv[i], max_dv) THEN FAbs(FSub(dv[i], max_dv))
                  ELSE 0
         IN  FAdd(p, StagePenaltyFrom(dv, total, sc, i + 1))

\* penalty = abs(np.sum(dv) - TOTAL_DELTA_V) + the distance of each stage
\* below its minimum (and, for the first stage, above its maximum).
enforce_stage_constraints(dv, total, sc) ==
    FAdd(FAbs(FSub(FSum(dv), total)), StagePenaltyFrom(dv, total, sc, 1))

\* The problem instance the cache belongs to: two stages.
ProblemISP     == <<2, 2>>
ProblemEPSILON == <<FP \div 10, FP \div 10>>

\* The candidates evaluated; the first three round to one cache key.
CacheCandidates ==
    {<<(40 * FP) \div 100, (80 * FP) \div 100>>,
     <<(44 * FP) \div 100, (80 * FP) \div 100>>,
     <<(36 * FP) \div 100, (84 * FP) \div 100>>,
     <<(80 * FP) \div 100, (40 * FP) \div 100>>}

\* objective(dv) of solve_with_basin_hopping and of
\* solve_with_differential_evolution: the value returned and the cache after.
CachedObjective(c, dv) ==
    LET cached == CacheGet(c, dv)
        pen == FMul(10^6 * FP,
                    enforce_stage_constraints(dv, TOTAL_DELTA_V, StageConstraints))
        payload_fraction == SolversPayloadFraction(dv, G0_981, ProblemISP, ProblemEPSILON)
    IN  IF cached.found
        THEN [value |-> FAdd(FNeg(cached.fitness), pen), cache |-> c, added |-> FALSE,
              fitness |-> cached.fitness]
        ELSE [value |-> FAdd(FNeg(payload_fraction), pen),
              cache |-> CacheAdd(c, dv, payload_fraction), added |-> TRUE,
              fitness |-> payload_fraction]

\* An evaluation that stores the payload fraction on every call, hit or miss.
ProblemEvaluateOneAlwaysStores(c, x) ==
    LET cached == CacheGet(c, x)
        g == enforce_stage_constraints(x, TOTAL_DELTA_V, StageConstraints)
        payload_fraction == SolversPayloadFraction(x, G0_981, ProblemISP, ProblemEPSILON)
    IN  [value |-> IF cached.found THEN FNeg(cached.fitness) ELSE FNeg(payload_fraction),
         g |-> g, cache |-> CacheAdd(c, x, payload_fraction), added |-> ~cached.found,
         fitness |-> payload_fraction]

\* One solution of RocketOptimizationProblem._evaluate, called with a config:
\* f[i], g[i] and the cache after.
ProblemEvaluateOne(c, x) ==
    LET cached == CacheGet(c, x)
        g == enforce_stage_constraints(x, TOTAL_DELTA_V, StageConstraints)
        payload_fraction == SolversPayloadFraction(x, G0_981, ProblemISP, ProblemEPSILON)
    IN  IF cached.found
        THEN [value |-> FNeg(cached.fitness), g |-> g, cache |-> c, added |-> FALSE,
              fitness |-> cached.fitness]
        ELSE [value |-> FNeg(payload_fraction), g |-> g,
              cache |-> CacheAdd(c, x, payload_fraction), added |-> TRUE,
              fitness |-> payload_fraction]

MaxEvals == 2       \* evaluations and adds made on one problem instance

CacheInit ==
    /\ cache = EmptyCache
    /\ addLog = <<>>
    /\ evalLog = <<>>

CacheBudget == Len(evalLog) + Len(addLog) < 2 * MaxEvals /\ Len(evalLog) < MaxEvals

\* A solver calls its objective(dv) on a candidate.
EvalObjective ==
    /\ CacheBudget
    /\ \E x \in CacheCandidates :
        LET r == CachedObjective(cache, x)
        IN  /\ cache' = r.cache
            /\ evalLog' = Append(evalLog, [fn |-> "objective", x |-> x,
                                           value |-> r.value, hit |-> ~r.added])
            /\ addLog' = IF r.added
                         THEN Append(addLog, [x |-> x, fitness |-> r.fitness])
                         ELSE addLog
    /\ UNCHANGED <<physVars, driverVars, gaVars, loopVars>>

\* pymoo (or a solver's set-up) calls problem._evaluate on a candidate.
EvalProblem ==
    /\ CacheBudget
    /\ \E x \in CacheCandidates :
        LET r == ProblemEvaluateOne(cache, x)
        IN  /\ cache' = r.cache
            /\ evalLog' = Append(evalLog, [fn |-> "_evaluate", x |-> x,
                                           value |-> r.value, hit |-> ~r.added])
            /\ addLog' = IF r.added
                         THEN Append(addLog, [x |-> x, fitness |-> r.fitness])
                         ELSE addLog
    /\ UNCHANGED <<physVars, driverVars, gaVars, loopVars>>

\* solve_with_ga saves its final solution:
\* problem.cache.add(optimal_dv, payload_fraction), the payload fraction
\* recomputed from optimal_dv.
GAFinalAdd ==
    /\ Len(addLog) < MaxEvals
    /\ \E x \in CacheCandidates :
        LET payload_fraction ==
                StageLambdaProduct(x, G0_981, ProblemISP, ProblemEPSILON)
        IN  /\ cache' = CacheAdd(cache, x, payload_fraction)
            /\ addLog' = Append(addLog, [x |-> x, fitness |-> payload_fraction])
    /\ UNCHANGED evalLog
    /\ UNCHANGED <<physVars, driverVars, gaVars, loopVars>>


-----------------------------------------------------------------------------
(* The repair operators, in exact rational arithmetic.  A rational is a pair *)
(* <<n, d>> in lowest terms with d > 0; <<0, 0>> is the NaN a division by    *)
(* zero leaves.                                                              *)

RECURSIVE Gcd(_, _)
Gcd(a, b) == IF b = 0 THEN a ELSE Gcd(b, a % b)

RNaN == <<0, 0>>
R(n, d) ==
    IF d = 0 THEN RNaN
    ELSE LET g == Gcd(Abs(n), Abs(d))
         IN  <<Sign(d) * (n \div g), Abs(d) \div g>>
RIsNaN(a) == a[2] = 0
RAdd(a, b) == IF RIsNaN(a) \/ RIsNaN(b) THEN RNaN
              ELSE R(a[1] * b[2] + b[1] * a[2], a[2] * b[2])
RSub(a, b) == RAdd(a, <<-b[1], b[2]>>)
RMul(a, b) == IF RIsNaN(a) \/ RIsNaN(b) THEN RNaN ELSE R(a[1] * b[1], a[2] * b[2])
RDiv(a, b) == IF RIsNaN(a) \/ RIsNaN(b) THEN RNaN ELSE R(a[1] * b[2], a[2] * b[1])
RAbs(a)    == <<Abs(a[1]), a[2]>>
RLe(a, b)  == ~RIsNaN(a) /\ ~RIsNaN(b) /\ a[1] * b[2] <= b[1] * a[2]
RLt(a, b)  == ~RIsNaN(a) /\ ~RIsNaN(b) /\ a[1] * b[2] < b[1] * a[2]
ROne       == <<1, 1>>

RECURSIVE RSumFrom(_, _)
RSumFrom(s, i) == IF i > Len(s) THEN <<0, 1>> ELSE RAdd(s[i], RSumFrom(s, i + 1))
RSum(s) == RSumFrom(s, 1)

\* a > 10 ^ (-2 * h) for a >= 0: the tolerance tests of the repair code.
ExceedsTol(a, h) ==
    /\ ~RIsNaN(a)
    /\ a[1] > 0
    /\ ((a[2] \div a[1]) \div 10^h) < 10^h

\* np.clip(v, lo, hi); a NaN stays a NaN.
RClip(v, lo, hi) ==
    IF RIsNaN(v) THEN v ELSE IF RLt(v, lo) THEN lo ELSE IF RLt(hi, v) THEN hi ELSE v

RTotal == R(TOTAL_DELTA_V, FP)

\* RepairDeltaV._do on one row x of X, with problem.xl and problem.xu.
RepairDeltaV(x, xl, xu, total) ==
    LET s1 == RSum(x)
        x1 == [i \in 1..Len(x) |-> RMul(x[i], RDiv(total, s1))]
        x2 == [i \in 1..Len(x) |-> RClip(x1[i], xl[i], xu[i])]
        s2 == RSum(x2)
        x3 == [i \in 1..Len(x) |-> RMul(x2[i], RDiv(total, s2))]
    IN  IF ~ExceedsTol(RAbs(RSub(s1, total)), 3) THEN x
        ELSE IF ExceedsTol(RAbs(RSub(s2, total)), 3) THEN x3
        ELSE x2

\* DifferentialEvolutionSolver.project_to_feasible(x) with self.bounds.
project_to_feasible(x, lower, upper) ==
    LET x_proj == [i \in 1..Len(x) |-> RClip(x[i], lower[i], upper[i])]
        total  == RSum(x_proj)
    IN  IF ExceedsTol(RAbs(RSub(total, ROne)), 5)
        THEN [i \in 1..Len(x) |-> RDiv(x_proj[i], total)]
        ELSE x_proj

\* Candidates handed to the repair operators: tenths of a velocity unit.
RepairGrid == {R(k, 10) : k \in {0, 2, 4, 8, 12, 20}}
\* Bounds: the driver's (min_dv, max_dv) for every stage, and the windows of
\* the stage constraints.
RepairBounds(n) ==
    {[i \in 1..n |-> [lo |-> <<0, 1>>, hi |-> RTotal]],
     [i \in 1..n |-> [lo |-> R(1, 10), hi |-> RMul(R(8, 10), RTotal)]],
     [i \in 1..n |-> IF i = 1
                     THEN [lo |-> RMul(R(15, 100), RTotal), hi |-> RMul(R(80, 100), RTotal)]
                     ELSE [lo |-> RMul(R(1, 100), RTotal), hi |-> RTotal]]}
Lows(b)  == [i \in 1..Len(b) |-> b[i].lo]
Highs(b) == [i \in 1..Len(b) |-> b[i].hi]

CallRepairDeltaV ==
    /\ call = IdleCall
    /\ \E n \in 1..MaxStages : \E x \in VecOf(RepairGrid, n), b \in RepairBounds(n) :
        call' = [fn |-> "RepairDeltaV._do", arg |-> x, ISP |-> <<>>, EPSILON |-> <<>>,
                 mr |-> <<>>, bounds |-> b,
                 ret |-> RepairDeltaV(x, Lows(b), Highs(b), RTotal)]
    /\ UNCHANGED <<cacheVars, driverVars, gaVars, loopVars>>

CallProjectToFeasible ==
    /\ call = IdleCall
    /\ \E n \in 1..MaxStages : \E x \in VecOf(RepairGrid, n), b \in RepairBounds(n) :
        call' = [fn |-> "project_to_feasible", arg |-> x, ISP |-> <<>>, EPSILON |-> <<>>,
                 mr |-> <<>>, bounds |-> b,
                 ret |-> project_to_feasible(x, Lows(b), Highs(b))]
    /\ UNCHANGED <<cacheVars, driverVars, gaVars, loopVars>>


-----------------------------------------------------------------------------
(* What each solve_with_* function hands back to its caller *)

\* The solver functions of the two modules.
MonolithSolvers == {"payload_optimization.solve_with_slsqp",
                    "payload_optimization.solve_with_basin_hopping",
                    "payload_optimization.solve_with_ga",
                    "payload_optimization.solve_with_adaptive_ga"}
PackageSolvers  == {"solvers.solve_with_slsqp", "solvers.solve_with_basin_hopping",
                    "solvers.solve_with_ga", "solvers.solve_with_adaptive_ga",
                    "solvers.solve_with_differential_evolution",
                    "solvers.solve_with_pso"}

\* The keys of the dict the solvers of solvers.py return, and of its stages.
PackageKeys      == {"success", "message", "payload_fraction", "stages",
                     "n_iterations", "n_function_evals"}
PackageStageKeys == {"stage", "delta_v", "Lambda", "mass_ratio"}

\* The value a solver function returns for n stages, by its shape:
\*   kind   "dict", "vector" (a bare array), "None", or "raise"
\*   keys   the keys of the dict; stages: the keys of each entry of 'stages'
\* ok says whether the body ran without an exception.
SolverReturn(solver, n, ok) ==
    LET shape(kind, keys, stage_keys) ==
            [kind |-> kind, keys |-> keys, stages |-> [k \in 1..n |-> stage_keys]]
        raised == [kind |-> "raise", keys |-> {}, stages |-> <<>>]
    IN  IF solver = "solvers.solve_with_adaptive_ga"
        THEN IF ok
             THEN shape("dict", PackageKeys \cup {"dv", "stage_ratios"},
                        {"delta_v", "Lambda"})
             ELSE [kind |-> "None", keys |-> {}, stages |-> <<>>]
        ELSE IF ~ok THEN raised
        ELSE IF solver \in PackageSolvers
        THEN shape("dict", PackageKeys, PackageStageKeys)
        ELSE IF solver = "payload_optimization.solve_with_adaptive_ga"
        THEN [kind |-> "dict",
              keys |-> {"method", "time", "solution", "fitness", "mass_ratios",
                        "payload_fraction", "dv", "error", "history"},
              stages |-> <<>>]
        ELSE [kind |-> "vector", keys |-> {}, stages |-> <<>>]

CallSolver ==
    /\ call = IdleCall
    /\ \E solver \in MonolithSolvers \cup PackageSolvers, n \in 1..MaxStages,
          ok \in BOOLEAN :
        call' = [fn |-> solver, arg |-> [k \in 1..n |-> 0], ISP |-> <<>>,
                 EPSILON |-> <<>>, mr |-> <<>>, bounds |-> <<>>,
                 ret |-> SolverReturn(solver, n, ok)]
    /\ UNCHANGED <<cacheVars, driverVars, gaVars, loopVars>>

-----------------------------------------------------------------------------
(* The constraint violation, as each solver of solvers.py takes it *)

\* solve_with_slsqp: the magnitude by which dv breaks total_dv_constraint
\* (an equality), min_dv_constraints and max_dv_constraint (both >= 0).
RECURSIVE SlsqpMinViolationFrom(_, _, _)
SlsqpMinViolationFrom(dv, total, i) ==
    IF i > Len(dv) THEN 0
    ELSE LET c == FSub(dv[i], FMul(IF i = 1 THEN (15 * FP) \div 100 ELSE FP \div 100, total))
         IN  FAdd(IF FLt(c, 0) THEN FNeg(c) ELSE 0, SlsqpMinViolationFrom(dv, total, i + 1))

SlsqpViolation(dv, total) ==
    LET total_dv_constraint == FSub(FSum(dv), total)
        max_dv_constraint   == FSub(FMul((8 * FP) \div 10, total), dv[1])
    IN  FAdd(FAbs(total_dv_constraint),
             FAdd(SlsqpMinViolationFrom(dv, total, 1),
                  IF FLt(max_dv_constraint, 0) THEN FNeg(max_dv_constraint) ELSE 0))

\* The penalty term of objective(dv) in solve_with_basin_hopping and
\* solve_with_differential_evolution.
PenaltyTerm(dv, total) ==
    FMul(10^6 * FP, enforce_stage_constraints(dv, total, StageConstraints))

\* The penalty of objective(dv) in solve_with_pso: 1e6 * |sum - total|, and
\* 1e6 more for every stage outside its window.
RECURSIVE PsoStagePenaltyFrom(_, _, _)
PsoStagePenaltyFrom(dv, total, i) ==
    IF i > Len(dv) THEN 0
    ELSE LET out == IF i = 1
                    THEN \/ FLt(dv[i], FMul((15 * FP) \div 100, total))
                         \/ FGt(dv[i], FMul((8 * FP) \div 10, total))
                    ELSE FLt(dv[i], FMul(FP \div 100, total))
         IN  FAdd(IF out THEN 10^6 * FP ELSE 0, PsoStagePenaltyFrom(dv, total, i + 1))

PsoPenalty(dv, total) ==
    FAdd(FMul(10^6 * FP, FAbs(FSub(FSum(dv), total))), PsoStagePenaltyFrom(dv, total, 1))

\* Candidates around the constraint set.
PenaltyGrid == {0, FP \div 10, (2 * FP) \div 10, (6 * FP) \div 10, FP, (11 * FP) \div 10,
                (13 * FP) \div 10}

CallPenalties ==
    /\ call = IdleCall
    /\ \E dv \in VecsUpTo(PenaltyGrid, MaxStages) :
        call' = [fn |-> "constraint_penalties", arg |-> dv, ISP |-> <<>>,
                 EPSILON |-> <<>>, mr |-> <<>>, bounds |-> <<>>,
                 ret |-> [slsqp   |-> SlsqpViolation(dv, TOTAL_DELTA_V),
                          enforce |-> enforce_stage_constraints(dv, TOTAL_DELTA_V,
                                                                StageConstraints),
                          term    |-> PenaltyTerm(dv, TOTAL_DELTA_V),
                          pso     |-> PsoPenalty(dv, TOTAL_DELTA_V)]]
    /\ UNCHANGED <<cacheVars, driverVars, gaVars, loopVars>>

-----------------------------------------------------------------------------
(* AdaptiveGA.mutation of payload_optimization.py: the clip-then-rescale step *)

\* mutation(individual), with the normal draw noise; mutate is the outcome of
\* the test against mutation_rate.
AdaptiveGAMutation(individual, noise, lower, upper, total, mutate) ==
    LET mutated == [i \in 1..Len(individual) |-> RAdd(individual[i], noise[i])]
        clipped == [i \in 1..Len(individual) |-> RClip(mutated[i], lower[i], upper[i])]
    IN  IF ~mutate THEN individual
        ELSE [i \in 1..Len(individual) |-> RMul(clipped[i], RDiv(total, RSum(clipped)))]

NoiseGrid == {R(-2, 5), R(2, 5)}

CallAdaptiveGAMutation ==
    /\ call = IdleCall
    /\ \E n \in 1..MaxStages :
       \E x \in VecOf(RepairGrid, n), d \in VecOf(NoiseGrid, n), b \in RepairBounds(n),
          mutate \in BOOLEAN :
        call' = [fn |-> "AdaptiveGA.mutation", arg |-> <<x, d>>, ISP |-> <<>>,
                 EPSILON |-> <<>>, mr |-> <<>>, bounds |-> b,
                 ret |-> [mutated |-> mutate,
                          x |-> AdaptiveGAMutation(x, d, Lows(b), Highs(b), RTotal, mutate)]]
    /\ UNCHANGED <<cacheVars, driverVars, gaVars, loopVars>>

-----------------------------------------------------------------------------
(* The genetic algorithm: solve_with_ga of payload_optimization.py and of     *)
(* solvers.py, both run by pymoo's minimize with seed=1.  Candidates are      *)
(* vectors of rationals; a run is followed by a second run on the same inputs *)

GaPopSize == 2      \* pop_size / population_size
GaMaxGen  == 2      \* generations pymoo runs before it terminates
GaSeed    == 1      \* seed=1 of pymoo_minimize

\* The value of a rational in the fixed-point format of the physics model.
ToFP(a) == (a[1] * FP) \div a[2]
ToFPVec(x) == [i \in 1..Len(x) |-> ToFP(x[i])]

GaInitialGuess == <<R(1, 5), R(1, 1)>>
GaLow  == <<R(0, 1), R(0, 1)>>
GaHigh == <<RTotal, RTotal>>

\* The vectors a uniform draw within the bounds can give.
FillSeq == <<<<R(2, 5), R(4, 5)>>, <<R(3, 5), R(3, 5)>>, <<R(1, 5), R(3, 5)>>,
            <<R(4, 5), R(2, 5)>>>>
FillSet == {FillSeq[i] : i \in 1..Len(FillSeq)}

\* The generator pymoo seeds: its next state, and the draw a state gives.
NextRng(st) == (5 * st + 3) % 8
SeededFill(st) == FillSeq[1 + (st % Len(FillSeq))]
RECURSIVE RngAfter(_, _)
RngAfter(st, k) == IF k = 0 THEN st ELSE RngAfter(NextRng(st), k - 1)

\* One individual: F and G as _evaluate sets them, by variant.  The solvers.py
\* problem goes through its cache c.
GaEvaluate(variant, c, x) ==
    LET v == ToFPVec(x)
    IN  IF variant = "payload_optimization"
        THEN [f |-> payload_fraction_objective(v, G0_981, ProblemISP, ProblemEPSILON),
              g |-> FSub(FSum(v), TOTAL_DELTA_V), cache |-> c]
        ELSE LET r == ProblemEvaluateOne(c, v)
             IN  [f |-> r.value, g |-> r.g, cache |-> r.cache]

\* pymoo's order of individuals: the smaller constraint violation first, then
\* the smaller F.
GaBetter(a, b) ==
    LET cva == Max2(a.g, 0)
        cvb == Max2(b.g, 0)
    IN  cva < cvb \/ (cva = cvb /\ a.f < b.f)

\* The individual ind put into the population pop, which is kept ordered.
RECURSIVE GaInsert(_, _)
GaInsert(pop, ind) ==
    IF pop = <<>> THEN <<ind>>
    ELSE IF GaBetter(ind, Head(pop)) THEN <<ind>> \o pop
    ELSE <<Head(pop)>> \o GaInsert(Tail(pop), ind)

\* The individuals xs evaluated in order and merged into pop; the cache after.
RECURSIVE GaEvalAll(_, _, _, _)
GaEvalAll(variant, c, xs, pop) ==
    IF xs = <<>> THEN [pop |-> pop, cache |-> c]
    ELSE LET e == GaEvaluate(variant, c, Head(xs))
         IN  GaEvalAll(variant, e.cache, Tail(xs),
                       GaInsert(pop, [x |-> Head(xs), f |-> e.f, g |-> e.g]))

\* eliminate_duplicates=True: the vectors of xs not in seen, each once.
RECURSIVE GaDedup(_, _)
GaDedup(xs, seen) ==
    IF xs = <<>> THEN <<>>
    ELSE IF Head(xs) \in seen THEN GaDedup(Tail(xs), seen)
    ELSE <<Head(xs)>> \o GaDedup(Tail(xs), seen \cup {Head(xs)})

ReverseSeq(q) == [i \in 1..Len(q) |-> q[Len(q) + 1 - i]]

\* SBX crossover of the best and the worst individual followed by polynomial
\* mutation, as functions of the seeded generator's state; the mutation keeps
\* the child within the bounds.
GaMateChild(pop, st) ==
    LET a == pop[1].x
        b == pop[Len(pop)].x
        crossed == IF st % 2 = 0 THEN <<a[1], b[2]>> ELSE <<b[1], a[2]>>
        k == 1 + ((st \div 2) % 2)
        step == IF (st \div 4) % 2 = 0 THEN R(1, 5) ELSE R(-1, 5)
    IN  [i \in 1..2 |->
            IF i = k THEN RClip(RAdd(crossed[i], step), GaLow[i], GaHigh[i])
            ELSE crossed[i]]

\* Which solve_with_ga configures GA(...) with repair=RepairDeltaV().
GaHasRepair(variant) == variant = "payload_optimization"

GaRepaired(variant, x) ==
    IF GaHasRepair(variant) THEN RepairDeltaV(x, GaLow, GaHigh, RTotal) ELSE x

GaVariants == {"payload_optimization", "solvers"}
NoRun == [kind |-> "none", x |-> <<>>, payload_fraction |-> 0]

\* The state a run starts in.
GaStart(variant, withConfig, libSuccess, run, first) ==
    [variant |-> variant, withConfig |-> withConfig, libSuccess |-> libSuccess,
     run |-> run, pc |-> "sample", pop |-> <<>>, rng |-> GaSeed, gen |-> 0,
     off |-> <<>>, evals |-> <<>>, cache |-> EmptyCache, first |-> first,
     result |-> NoRun]

LoopIdle == [solver |-> "none", pc |-> "idle"]

GaIdle == [GaStart("solvers", TRUE, TRUE, 0, NoRun) EXCEPT !.pc = "idle"]

GaLogged(xs, kind, repaired) ==
    [i \in 1..Len(xs) |-> [x |-> xs[i], kind |-> kind, repaired |-> repaired]]

\* The initial population.  payload_optimization.py: pymoo's default sampling
\* from the seeded generator, repaired, then evaluated.  solvers.py: the
\* initial guess, then np.random.uniform rows from numpy's global generator
\* (drawn before pymoo_minimize seeds anything), the fitness read from the
\* empty cache, the np.argsort(fitness)[::-1] order, then pymoo's evaluation,
\* which raises KeyError when _evaluate is not handed a config.
GAInitialPopulation ==
    /\ ga.pc = "sample"
    /\ \E fills \in [1..(GaPopSize - 1) -> FillSet] :
        LET seeded == [i \in 1..GaPopSize |-> SeededFill(RngAfter(ga.rng, i - 1))]
            sample == IF ga.variant = "payload_optimization"
                      THEN [i \in 1..GaPopSize |-> GaRepaired(ga.variant, seeded[i])]
                      ELSE ReverseSeq(<<GaInitialGuess>> \o fills)
            xs == GaDedup(sample, {})
            ev == GaEvalAll(ga.variant, ga.cache, xs, <<>>)
            rng1 == IF ga.variant = "payload_optimization"
                    THEN RngAfter(ga.rng, GaPopSize) ELSE ga.rng
        IN  IF ga.variant = "solvers" /\ ~ga.withConfig
            THEN ga' = [ga EXCEPT !.pc = "done",
                                  !.result = [NoRun EXCEPT !.kind = "KeyError"]]
            ELSE ga' = [ga EXCEPT !.pc = "mate", !.pop = ev.pop, !.cache = ev.cache,
                                  !.rng = rng1,
                                  !.evals = GaLogged(xs, "initial", GaHasRepair(ga.variant))]
    /\ UNCHANGED <<physVars, cacheVars, driverVars, loopVars>>

\* One generation's offspring: mating from the seeded generator, duplicates
\* of the population dropped, and the repair the algorithm was given.
GAMate ==
    /\ ga.pc = "mate"
    /\ LET raw == [i \in 1..GaPopSize |-> GaMateChild(ga.pop, RngAfter(ga.rng, i - 1))]
           rep == [i \in 1..GaPopSize |-> GaRepaired(ga.variant, raw[i])]
           xs  == GaDedup(rep, {ga.pop[i].x : i \in 1..Len(ga.pop)})
       IN  ga' = [ga EXCEPT !.pc = "evaluate",
                            !.rng = RngAfter(ga.rng, GaPopSize),
                            !.off = GaLogged(xs, "offspring", GaHasRepair(ga.variant))]
    /\ UNCHANGED <<physVars, cacheVars, driverVars, loopVars>>

\* The offspring evaluated by problem._evaluate and merged; the survivors are
\* the pop_size best.
GAEvaluate ==
    /\ ga.pc = "evaluate"
    /\ LET xs == [i \in 1..Len(ga.off) |-> ga.off[i].x]
           ev == GaEvalAll(ga.variant, ga.cache, xs, ga.pop)
       IN  ga' = [ga EXCEPT !.pc = IF ga.gen + 1 >= GaMaxGen THEN "finish" ELSE "mate",
                            !.gen = ga.gen + 1,
                            !.pop = Take(ev.pop, Min2(GaPopSize, Len(ev.pop))),
                            !.cache = ev.cache,
                            !.off = <<>>,
                            !.evals = ga.evals \o ga.off]
    /\ UNCHANGED <<physVars, cacheVars, driverVars, loopVars>>

\* What solve_with_ga returns.  payload_optimization.py: res.X, or the initial
\* guess when res.success is false.  solvers.py: the payload fraction of
\* result.X, which is also added to the cache.
GAFinish ==
    /\ ga.pc = "finish"
    /\ LET best == ga.pop[1].x
           x == IF ga.variant = "payload_optimization" /\ ~ga.libSuccess
                THEN GaInitialGuess ELSE best
           pf == StageLambdaProduct(ToFPVec(x), G0_981, ProblemISP, ProblemEPSILON)
       IN  ga' = [ga EXCEPT !.pc = "done",
                            !.result = [kind |-> "result", x |-> x,
                                        payload_fraction |-> pf],
                            !.cache = IF ga.variant = "solvers"
                                      THEN CacheAdd(ga.cache, ToFPVec(x), pf)
                                      ELSE ga.cache]
    /\ UNCHANGED <<physVars, cacheVars, driverVars, loopVars>>

\* The same call made a second time: same inputs, same starting cache.
GASecondRun ==
    /\ ga.pc = "done"
    /\ ga.run = 1
    /\ ga' = GaStart(ga.variant, ga.withConfig, ga.libSuccess, 2, ga.result)
    /\ UNCHANGED <<physVars, cacheVars, driverVars, loopVars>>

-----------------------------------------------------------------------------
(* problem._evaluate on a whole population X *)

\* The body of the try block of OptimizationProblem._evaluate for one member.
\* payload_fraction_objective catches its own exceptions and np.sum of a row
\* of floats cannot raise, so no member reaches the except branch.
OptimizationProblemTry(x) ==
    [raised |-> FALSE,
     f |-> payload_fraction_objective(x, G0_981, ProblemISP, ProblemEPSILON),
     g |-> FSub(FSum(x), TOTAL_DELTA_V)]

\* OptimizationProblem._evaluate: a member that raises gets f = g = 1e6 and
\* the loop goes on.
OptimizationProblemEvaluate(X) ==
    LET m == [i \in 1..Len(X) |-> OptimizationProblemTry(X[i])]
    IN  [raised |-> FALSE,
         F |-> [i \in 1..Len(X) |-> IF m[i].raised THEN Sentinel ELSE m[i].f],
         G |-> [i \in 1..Len(X) |-> IF m[i].raised THEN Sentinel ELSE m[i].g]]

\* RocketOptimizationProblem._evaluate: no try block; the members from i on,
\* with F and G filled so far.  enforce_stage_constraints(x[i], total,
\* kwargs.get('config', {})) looks up config['optimization'] and raises
\* KeyError on the empty dict, and the exception leaves _evaluate before
\* out["F"] and out["G"] are set.
RECURSIVE RocketProblemEvaluateFrom(_, _, _, _, _, _)
RocketProblemEvaluateFrom(c, X, withConfig, i, F, G) ==
    IF i > Len(X) THEN [raised |-> FALSE, F |-> F, G |-> G, cache |-> c]
    ELSE IF ~withConfig THEN [raised |-> TRUE, F |-> <<>>, G |-> <<>>, cache |-> c]
    ELSE LET r == ProblemEvaluateOne(c, X[i])
         IN  RocketProblemEvaluateFrom(r.cache, X, withConfig, i + 1,
                                       Append(F, r.value), Append(G, r.g))

RocketProblemEvaluate(c, X, withConfig) ==
    RocketProblemEvaluateFrom(c, X, withConfig, 1, <<>>, <<>>)

ProblemClasses == {"OptimizationProblem", "RocketOptimizationProblem"}

CallEvaluatePopulation ==
    /\ call = IdleCall
    /\ \E problem \in ProblemClasses, withConfig \in BOOLEAN,
          X \in [1..GaPopSize -> CacheCandidates] :
        LET r == IF problem = "OptimizationProblem"
                 THEN OptimizationProblemEvaluate(X)
                 ELSE RocketProblemEvaluate(EmptyCache, X, withConfig)
        IN  call' = [fn |-> "_evaluate", arg |-> X, ISP |-> ProblemISP,
                     EPSILON |-> ProblemEPSILON, mr |-> <<>>, bounds |-> <<>>,
                     ret |-> [problem |-> problem, config |-> withConfig,
                              raised |-> r.raised, F |-> r.F, G |-> r.G]]
    /\ UNCHANGED <<cacheVars, driverVars, gaVars, loopVars>>

-----------------------------------------------------------------------------
(* The adaptive GA's generation loop: AdaptiveGA.optimize of                  *)
(* payload_optimization.py and the loop of solve_with_adaptive_ga of          *)
(* solvers.py.  A generation's best fitness and whether its diversity is      *)
(* below diversity_threshold are inputs of the step.                          *)

AgaGenerations == 7         \* config n_generations
StagnationThresholds == {2, 7}      \* config stagnation_threshold
FitnessGrid == {FP \div 2, (6 * FP) \div 10}    \* np.max(fitnesses)

\* (initial_mutation_rate, initial_crossover_rate) of the configuration
InitialRates == {<<FP \div 10, (8 * FP) \div 10>>, <<FP \div 2, (95 * FP) \div 100>>,
                 <<FP \div 100, FP \div 2>>}

\* The limits of the rates: literals in update_parameters, configuration
\* defaults in solvers.py.
RateLimits(variant) ==
    IF variant = "payload_optimization"
    THEN [min_mutation_rate |-> FP \div 100, max_mutation_rate |-> FP \div 2,
          min_crossover_rate |-> FP \div 2, max_crossover_rate |-> (95 * FP) \div 100]
    ELSE [min_mutation_rate |-> FP \div 100, max_mutation_rate |-> (3 * FP) \div 10,
          min_crossover_rate |-> (6 * FP) \div 10, max_crossover_rate |-> (95 * FP) \div 100]

\* AdaptiveGA.update_parameters: the two rates after the update.
update_parameters_uncapped(mutation_rate, crossover_rate, lowDiversity, gwi) ==
    [mutation_rate  |-> IF lowDiversity
                        THEN FMul(mutation_rate, (15 * FP) \div 10)
                        ELSE Max2(FMul(mutation_rate, (9 * FP) \div 10), FP \div 100),
     crossover_rate |-> IF gwi > 5
                        THEN Min2(FMul(crossover_rate, (11 * FP) \div 10), (95 * FP) \div 100)
                        ELSE Max2(FMul(crossover_rate, (9 * FP) \div 10), FP \div 2)]
update_parameters(mutation_rate, crossover_rate, lowDiversity, gwi) ==
    [mutation_rate  |-> IF lowDiversity
                        THEN Min2(FMul(mutation_rate, (15 * FP) \div 10), FP \div 2)
                        ELSE Max2(FMul(mutation_rate, (9 * FP) \div 10), FP \div 100),
     crossover_rate |-> IF gwi > 5
                        THEN Min2(FMul(crossover_rate, (11 * FP) \div 10), (95 * FP) \div 100)
                        ELSE Max2(FMul(crossover_rate, (9 * FP) \div 10), FP \div 2)]

\* The rate update at the head of the loop of solve_with_adaptive_ga
\* (solvers.py): the mutation rate only.
PackageRateUpdate(mutation_rate, lowDiversity, lim) ==
    IF lowDiversity
    THEN Min2(FMul(mutation_rate, (15 * FP) \div 10), lim.max_mutation_rate)
    ELSE Max2(FMul(mutation_rate, (9 * FP) \div 10), lim.min_mutation_rate)

AgaStart(variant, threshold, rates) ==
    [solver |-> "adaptive_ga", variant |-> variant, pc |-> "generation",
     stagnation_threshold |-> threshold, generation |-> 0,
     best_fitness |-> NInf, generations_without_improvement |-> 0,
     mutation_rate |-> rates[1], crossover_rate |-> rates[2],
     history |-> <<>>, stop |-> "none"]

\* One pass of the body of `for generation in range(n_generations)` in
\* AdaptiveGA.optimize.
AgaGeneration ==
    /\ loop.solver = "adaptive_ga" /\ loop.variant = "payload_optimization"
    /\ loop.pc = "generation"
    /\ \E current_best_fitness \in FitnessGrid, lowDiversity \in BOOLEAN :
        LET improved == FGt(current_best_fitness, loop.best_fitness)
            gwi == IF improved THEN 0 ELSE loop.generations_without_improvement + 1
            rates == update_parameters(loop.mutation_rate, loop.crossover_rate,
                                       lowDiversity, gwi)
            entry == [best |-> current_best_fitness, lowDiversity |-> lowDiversity,
                      mutation_rate |-> loop.mutation_rate,
                      crossover_rate |-> loop.crossover_rate, gwi |-> gwi]
            seen == [loop EXCEPT
                        !.best_fitness = IF improved THEN current_best_fitness ELSE @,
                        !.generations_without_improvement = gwi,
                        !.history = Append(@, entry)]
        IN  IF gwi >= loop.stagnation_threshold
            THEN loop' = [seen EXCEPT !.pc = "done", !.stop = "stagnation"]
            ELSE loop' = [seen EXCEPT
                            !.mutation_rate = rates.mutation_rate,
                            !.crossover_rate = rates.crossover_rate,
                            !.generation = @ + 1,
                            !.pc = IF loop.generation + 1 >= AgaGenerations
                                   THEN "done" ELSE "generation",
                            !.stop = IF loop.generation + 1 >= AgaGenerations
                                     THEN "n_generations" ELSE "none"]
    /\ UNCHANGED <<physVars, cacheVars, driverVars, gaVars>>

\* One pass of the body of `for generation in range(n_generations)` in
\* solve_with_adaptive_ga of solvers.py: the rate update, no evolution step
\* and no stagnation counter, then every tenth generation
\* problem._evaluate(population[0], out) without a config, whose KeyError
\* makes the function return None.
PackageAgaGeneration ==
    /\ loop.solver = "adaptive_ga" /\ loop.variant = "solvers"
    /\ loop.pc = "generation"
    /\ \E current_best_fitness \in FitnessGrid, lowDiversity \in BOOLEAN :
        LET rate == PackageRateUpdate(loop.mutation_rate, lowDiversity,
                                      RateLimits("solvers"))
            improved == FGt(current_best_fitness, loop.best_fitness)
            entry == [best |-> current_best_fitness, lowDiversity |-> lowDiversity,
                      mutation_rate |-> loop.mutation_rate,
                      crossover_rate |-> loop.crossover_rate, gwi |-> 0]
            seen == [loop EXCEPT
                        !.best_fitness = IF improved THEN current_best_fitness ELSE @,
                        !.mutation_rate = rate,
                        !.history = Append(@, entry)]
        IN  IF loop.generation % 10 = 0
            THEN loop' = [seen EXCEPT !.pc = "done", !.stop = "KeyError"]
            ELSE loop' = [seen EXCEPT
                            !.generation = @ + 1,
                            !.pc = IF loop.generation + 1 >= AgaGenerations
                                   THEN "done" ELSE "generation",
                            !.stop = IF loop.generation + 1 >= AgaGenerations
                                     THEN "n_generations" ELSE "none"]
    /\ UNCHANGED <<physVars, cacheVars, driverVars, gaVars>>

-----------------------------------------------------------------------------
(* DifferentialEvolutionSolver.optimize of de_solver.py.  A candidate is      *)
(* represented by what objective_with_penalty(..., return_tuple=True) returns *)
(* for it: the objective and the two constraint violations.  The random       *)
(* draws (parents, crossover points) are inputs of each trial.                *)

DePopSize       == 4    \* self.population_size
DeMaxIterations == 2    \* self.max_iterations
\* (self.update_nlast, the stall_count at which the loop breaks)
LoopLimits      == {<<1, 2>>, <<2, 2>>}

\* (obj, dv_const, phys_const) of a candidate.
Cand(o, d) == [obj |-> o * FP, dv_const |-> d * (FP \div 5), phys_const |-> 0]

\* The trial vectors that can come out of mutation, crossover and projection.
CandKinds == {Cand(1, 0), Cand(1, 1), Cand(2, 1)}

feasible_threshold == 0     \* 1e-4, below the resolution of the format

DeFeasible(k) ==
    k.dv_const <= feasible_threshold /\ k.phys_const <= feasible_threshold

\* scores[i] of evaluate_population with adaptive_penalty: penalty_factor 10,
\* doubled when a violation exceeds 0.1.
DeScore(k) ==
    LET penalty == IF k.dv_const > FP \div 10 \/ k.phys_const > FP \div 10
                   THEN 20 * FP ELSE 10 * FP
    IN  FAdd(k.obj, FMul(penalty, FAdd(k.dv_const, k.phys_const)))

NoCandidate == [obj |-> 0, dv_const |-> -1, phys_const |-> -1]

\* A tracking that keeps the first feasible candidate it meets.
DeEvaluateOneKeepsFirst(st, k) ==
    IF DeFeasible(k)
    THEN [st EXCEPT !.n_feasible = @ + 1,
                    !.best_feasible = IF @ = NoCandidate THEN k ELSE @,
                    !.best_feasible_score = IF @ = PInf THEN k.obj ELSE @,
                    !.evaluated = @ \cup {k}, !.evals = @ + 1]
    ELSE [st EXCEPT !.n_infeasible = @ + 1,
                    !.evaluated = @ \cup {k}, !.evals = @ + 1]
\* evaluate_population on one candidate k: the statistics after it.
DeEvaluateOne(st, k) ==
    IF DeFeasible(k)
    THEN [st EXCEPT !.n_feasible = @ + 1,
                    !.best_feasible =
                        IF FLt(k.obj, st.best_feasible_score) THEN k ELSE @,
                    !.best_feasible_score =
                        IF FLt(k.obj, st.best_feasible_score) THEN k.obj ELSE @,
                    !.evaluated = @ \cup {k}, !.evals = @ + 1]
    ELSE [st EXCEPT !.n_infeasible = @ + 1,
                    !.evaluated = @ \cup {k}, !.evals = @ + 1]

RECURSIVE DeEvaluateFrom(_, _, _)
DeEvaluateFrom(st, pop, i) ==
    IF i > Len(pop) THEN st
    ELSE DeEvaluateFrom(DeEvaluateOne(st, pop[i]), pop, i + 1)

\* np.argmin(scores): the first index of the least score.
ArgMin(scores) ==
    CHOOSE i \in 1..Len(scores) :
        /\ \A j \in 1..Len(scores) : scores[i] <= scores[j]
        /\ \A j \in 1..(i - 1) : scores[j] > scores[i]

MinOf(scores) == scores[ArgMin(scores)]

\* The populations initialize_population can return.
InitialPopulations ==
    {[i \in 1..DePopSize |-> Cand(2, 1)],
     [i \in 1..DePopSize |-> IF i = 2 THEN Cand(2, 0) ELSE Cand(1, 1)],
     [i \in 1..DePopSize |-> IF i = DePopSize THEN Cand(1, 1) ELSE Cand(2, 1)]}

DeStart(update_nlast, stall_limit) ==
    [solver |-> "de", pc |-> "initialize", update_nlast |-> update_nlast,
     stall_limit |-> stall_limit, population |-> <<>>, scores |-> <<>>,
     best_idx |-> 0, best_score |-> 0, best_solution |-> NoCandidate,
     prev_best |-> 0, best_feasible |-> NoCandidate, best_feasible_score |-> PInf,
     n_feasible |-> 0, n_infeasible |-> 0, iteration |-> 0, stall_count |-> 0,
     history |-> <<>>, i |-> 0, replaced |-> {}, evaluated |-> {}, evals |-> 0,
     trial |-> [fromReplaced |-> FALSE, baseIsBest |-> TRUE],
     stop |-> "none", result |-> [success |-> FALSE, x |-> NoCandidate,
                                  n_iterations |-> 0, n_function_evals |-> 0]]

\* initialize_population, evaluate_population and the best-solution tracking
\* before the loop; then the first test of `while iteration < max_iterations`.
DEInitialize ==
    /\ loop.solver = "de" /\ loop.pc = "initialize"
    /\ \E population \in InitialPopulations :
        LET scores == [i \in 1..DePopSize |-> DeScore(population[i])]
            st == DeEvaluateFrom(loop, population, 1)
            best_idx == ArgMin(scores)
        IN  loop' = [st EXCEPT !.population = population, !.scores = scores,
                               !.best_idx = best_idx,
                               !.best_score = scores[best_idx],
                               !.best_solution = population[best_idx],
                               !.prev_best = scores[best_idx],
                               !.i = 1, !.replaced = {},
                               !.pc = "evolve"]
    /\ UNCHANGED <<physVars, cacheVars, driverVars, gaVars>>

\* The body of `for i in range(self.population_size)` for member i: parents
\* b and c drawn among the other members (their order does not matter
\* here), the mutant built on population[best_idx], crossover with
\* population[i], projection, evaluation and selection.
DETrial ==
    /\ loop.solver = "de" /\ loop.pc = "evolve"
    /\ \E b \in 1..DePopSize, c \in 1..DePopSize, trial \in CandKinds :
        /\ b # loop.i /\ c # loop.i /\ b < c
        /\ LET parents == {loop.best_idx, b, c, loop.i}
               trial_score == DeScore(trial)
               st == DeEvaluateOne(loop, trial)
               accepted == trial_score <= loop.scores[loop.i]
               better == accepted /\ trial_score < loop.best_score
           IN  loop' = [st EXCEPT
                    !.trial = [fromReplaced |-> parents \cap loop.replaced # {},
                               baseIsBest |->
                                   loop.scores[loop.best_idx] = MinOf(loop.scores)],
                    !.population = IF accepted THEN [@ EXCEPT ![loop.i] = trial] ELSE @,
                    !.scores = IF accepted THEN [@ EXCEPT ![loop.i] = trial_score] ELSE @,
                    !.replaced = IF accepted THEN @ \cup {loop.i} ELSE @,
                    !.best_score = IF better THEN trial_score ELSE @,
                    !.best_solution = IF better THEN trial ELSE @,
                    !.i = @ + 1,
                    !.pc = IF loop.i = DePopSize THEN "check" ELSE "evolve"]
    /\ UNCHANGED <<physVars, cacheVars, driverVars, gaVars>>

\* The end of one pass of the while loop: the convergence test on the last
\* update_nlast entries of history, the stall count, iteration += 1 and the
\* next test of the loop condition.
DECheck ==
    /\ loop.solver = "de" /\ loop.pc = "check"
    /\ LET n == Len(loop.history)
           converged ==
               /\ n >= loop.update_nlast
               /\ \A j \in (n - loop.update_nlast + 1)..n : loop.history[j] = loop.history[n]
           stall == IF loop.best_score = loop.prev_best THEN loop.stall_count + 1 ELSE 0
       IN  IF converged
           THEN loop' = [loop EXCEPT !.pc = "finish", !.stop = "converged"]
           ELSE IF stall >= loop.stall_limit
           THEN loop' = [loop EXCEPT !.history = Append(@, loop.best_score),
                                     !.stall_count = stall,
                                     !.pc = "finish", !.stop = "stalled"]
           ELSE loop' = [loop EXCEPT
                    !.history = Append(@, loop.best_score),
                    !.stall_count = stall,
                    !.iteration = @ + 1,
                    !.prev_best = loop.best_score,
                    !.i = 1, !.replaced = {},
                    !.pc = IF loop.iteration + 1 < DeMaxIterations
                           THEN "evolve" ELSE "finish",
                    !.stop = IF loop.iteration + 1 < DeMaxIterations
                             THEN "none" ELSE "max_iterations"]
    /\ UNCHANGED <<physVars, cacheVars, driverVars, gaVars>>

\* What optimize hands to process_results.
DEFinish ==
    /\ loop.solver = "de" /\ loop.pc = "finish"
    /\ loop' = [loop EXCEPT
            !.pc = "done",
            !.result = [success |-> loop.best_feasible # NoCandidate,
                        x |-> IF loop.best_feasible # NoCandidate
                              THEN loop.best_feasible ELSE loop.best_solution,
                        n_iterations |-> loop.iteration,
                        n_function_evals |-> loop.iteration * DePopSize]]
    /\ UNCHANGED <<physVars, cacheVars, driverVars, gaVars>>

-----------------------------------------------------------------------------
(* The function each solver hands to its minimizer *)

\* objective.payload_fraction_objective, which solvers.py imports: the negated
\* payload fraction plus the quadratic penalty of a mass ratio <= 0.1.
SolversPayloadFractionObjective(dv, G0, ISP, EPSILON) ==
    LET ratios == calculate_stage_ratios(dv, G0, ISP, EPSILON)
    IN  FAdd(FNeg(FProd(ratios.stage_ratios)), RatioPenaltyFrom(ratios.mass_ratios, 1))

\* The solve_with_* functions whose objective(dv) is modelled: those of
\* solvers.py, and solve_with_slsqp / solve_with_basin_hopping of
\* payload_optimization.py.
ObjectiveSolvers == {"slsqp", "basin_hopping", "differential_evolution", "pso",
                     "monolith_slsqp", "monolith_basin_hopping"}

\* objective(dv) of each solver.  A cache hit of the basin-hopping and DE
\* objectives returns the stored payload fraction under the same formula.
SolverObjective(solver, dv) ==
    CASE solver = "slsqp" ->
           FNeg(SolversPayloadFractionObjective(dv, G0_981, ProblemISP, ProblemEPSILON))
      [] solver \in {"basin_hopping", "differential_evolution"} ->
           FAdd(FNeg(SolversPayloadFraction(dv, G0_981, ProblemISP, ProblemEPSILON)),
                PenaltyTerm(dv, TOTAL_DELTA_V))
      [] solver = "pso" ->
           FAdd(FNeg(SolversPayloadFractionObjective(dv, G0_981, ProblemISP,
                                                     ProblemEPSILON)),
                PsoPenalty(dv, TOTAL_DELTA_V))
      [] solver = "monolith_slsqp" ->
           payload_fraction_objective(dv, G0_981, ProblemISP, ProblemEPSILON)
      [] solver = "monolith_basin_hopping" ->
           objective_with_penalty(dv, G0_981, ProblemISP, ProblemEPSILON, TOTAL_DELTA_V)

\* The constraint violation of dv as the solver measures it.
SolverViolation(solver, dv) ==
    CASE solver = "slsqp" -> SlsqpViolation(dv, TOTAL_DELTA_V)
      [] solver \in {"basin_hopping", "differential_evolution"} ->
           enforce_stage_constraints(dv, TOTAL_DELTA_V, StageConstraints)
      [] solver = "pso" -> PsoPenalty(dv, TOTAL_DELTA_V)
      [] solver \in {"monolith_slsqp", "monolith_basin_hopping"} ->
           FAbs(FSub(FSum(dv), TOTAL_DELTA_V))

\* The payload fraction of dv in the solver's own physics.
SolverPayload(solver, dv) ==
    IF solver \in {"monolith_slsqp", "monolith_basin_hopping"}
    THEN calculate_payload_fraction(calculate_mass_ratios(dv, ProblemISP, ProblemEPSILON))
    ELSE SolversPayloadFraction(dv, G0_981, ProblemISP, ProblemEPSILON)

\* Candidates the minimizers are asked about: on and off the constraint set.
ObjectiveCandidates ==
    {<<0, (11 * FP) \div 10>>, <<0, (13 * FP) \div 10>>, <<FP \div 10, FP>>,
     <<(6 * FP) \div 10, (2 * FP) \div 10>>, <<(6 * FP) \div 10, FP>>,
     <<(2 * FP) \div 10, (6 * FP) \div 10>>, <<(6 * FP) \div 10, (6 * FP) \div 10>>,
     <<(2 * FP) \div 10, FP>>}

\* What the minimizer sees of one candidate.
ObjectiveView(solver, dv) ==
    [value     |-> SolverObjective(solver, dv),
     payload   |-> SolverPayload(solver, dv),
     violation |-> SolverViolation(solver, dv)]

\* One call of a solver's objective on each of two candidates.
CallSolverObjective ==
    /\ call = IdleCall
    /\ \E solver \in ObjectiveSolvers :
       \E a \in ObjectiveCandidates, b \in ObjectiveCandidates :
        call' = [fn |-> "solver_objective", arg |-> <<a, b>>, ISP |-> ProblemISP,
                 EPSILON |-> ProblemEPSILON, mr |-> <<>>, bounds |-> <<>>,
                 ret |-> [solver |-> solver,
                          a |-> ObjectiveView(solver, a),
                          b |-> ObjectiveView(solver, b)]]
    /\ UNCHANGED <<cacheVars, driverVars, gaVars, loopVars>>

-----------------------------------------------------------------------------
(* The initial population of solve_with_ga and solve_with_adaptive_ga of      *)
(* solvers.py, built before the main loop from the initial guess, the cache's *)
(* best solutions and uniform random rows.                                    *)

SetUpPopSize == 3

\* fitness[i] = problem.cache.get_cached_fitness(x), fitness being the float
\* array np.zeros(n): the item assignment stores None as nan.
FloatSlot(cached) == IF cached.found THEN cached.fitness ELSE NaN

\* `fitness[i] is None`: the element read back from the float array is an
\* np.float64 object, whatever was assigned.
SlotIsNone(v) == FALSE

\* The candidates of the set-up, as float rows.
SetUpGuess == ToFPVec(GaInitialGuess)
SetUpFills == {ToFPVec(f) : f \in FillSet}

\* The cache the problem instance arrives with and what its
\* get_best_solutions() returns: nothing, an earlier solution, or the initial
\* guess itself.
SetUpCaches ==
    {[cache |-> EmptyCache, best_solutions |-> <<>>]}
    \cup {[cache |-> ProblemEvaluateOne(EmptyCache, x).cache, best_solutions |-> <<x>>] :
            x \in {SetUpGuess, ToFPVec(FillSeq[1])}}

SetUpStart(c) ==
    [population |-> [i \in 1..SetUpPopSize |-> [d \in 1..Len(SetUpGuess) |-> 0]],
     fitness    |-> [i \in 1..SetUpPopSize |-> 0],
     assigned   |-> {}, evaluated |-> {}, cache |-> c, raised |-> FALSE]

\* One slot taken from the cache's best solutions: no evaluation.
SetUpCachedSlot(st, i, x) ==
    [st EXCEPT !.population[i] = x, !.assigned = @ \cup {i},
               !.fitness[i] = FloatSlot(CacheGet(st.cache, x))]

\* The initial guess or a random row: the cached fitness, and under
\* `if fitness[i] is None` the evaluation by problem._evaluate (called with no
\* config) and the cache.add.
SetUpSlot(st, i, x) ==
    LET placed == SetUpCachedSlot(st, i, x)
    IN  IF st.raised THEN st
        ELSE IF SlotIsNone(placed.fitness[i])
        THEN LET out == RocketProblemEvaluate(st.cache, <<x>>, FALSE)
             IN  IF out.raised THEN [placed EXCEPT !.raised = TRUE]
                 ELSE [placed EXCEPT !.fitness[i] = FNeg(out.F[1]),
                                     !.evaluated = @ \cup {x},
                                     !.cache = CacheAdd(out.cache, x, FNeg(out.F[1]))]
        ELSE placed

RECURSIVE SetUpCachedFrom(_, _, _)
SetUpCachedFrom(st, best_solutions, i) ==
    IF i > Min2(Len(best_solutions), SetUpPopSize - 1) THEN st
    ELSE SetUpCachedFrom(SetUpCachedSlot(st, i + 1, best_solutions[i]), best_solutions, i + 1)

RECURSIVE SetUpRandomFrom(_, _, _)
SetUpRandomFrom(st, rows, i) ==
    IF i > SetUpPopSize THEN st
    ELSE SetUpRandomFrom(SetUpSlot(st, i, rows[i]), rows, i + 1)

\* np.argsort(fitness)[::-1]: ascending with nan last, then reversed.
\* SortsBefore(fitness, j, i): slot j comes before slot i in the ascending order.
SortsBefore(fitness, j, i) ==
    IF fitness[j] = fitness[i] THEN j < i
    ELSE fitness[j] # NaN /\ (fitness[i] = NaN \/ fitness[j] < fitness[i])

ArgSortDescending(fitness) ==
    LET n == Len(fitness)
        ascending(i) == 1 + Cardinality({j \in 1..n : j # i /\ SortsBefore(fitness, j, i)})
    IN  [k \in 1..n |-> CHOOSE i \in 1..n : ascending(i) = n + 1 - k]

\* Lines 293-332: the slots filled.  rows are the np.random.uniform rows,
\* indexed by the slot they land in.
GaSetUpFilled(c, rows) ==
    LET n_cached == Len(c.best_solutions)
        n_random == SetUpPopSize - n_cached - 1
        guess    == SetUpSlot(SetUpStart(c.cache), 1, SetUpGuess)
        cached   == SetUpCachedFrom(guess, c.best_solutions, 1)
    IN  IF n_random > 0 THEN SetUpRandomFrom(cached, rows, n_cached + 2) ELSE cached

\* Lines 334-337: the sort.
GaSetUpSorted(filled, sort_idx) ==
    [filled EXCEPT !.population = [i \in 1..SetUpPopSize |-> filled.population[sort_idx[i]]],
                   !.fitness = [i \in 1..SetUpPopSize |-> filled.fitness[sort_idx[i]]]]

SetUpSolvers == {"solve_with_ga", "solve_with_adaptive_ga"}

CallGaSetUp ==
    /\ call = IdleCall
    /\ \E solver \in SetUpSolvers, c \in SetUpCaches,
          rows \in [1..SetUpPopSize -> SetUpFills] :
       \E filled \in {GaSetUpFilled(c, rows)} :
       \E sort_idx \in {ArgSortDescending(filled.fitness)} :
        call' = [fn |-> "ga_set_up", arg |-> <<solver, c.best_solutions>>,
                 ISP |-> ProblemISP, EPSILON |-> ProblemEPSILON, mr |-> <<>>,
                 bounds |-> <<>>,
                 ret |-> [before |-> c.cache, after |-> GaSetUpSorted(filled, sort_idx)]]
    /\ UNCHANGED <<cacheVars, driverVars, gaVars, loopVars>>

-----------------------------------------------------------------------------
(* solve_with_pso of solvers.py.  Positions and velocities are float rows;   *)
(* the uniform draws of the initial swarm and the two random factors of each  *)
(* iteration are inputs.                                                      *)

PsoParticles  == 3
PsoIterations == 3

inertia_weight  == (7 * FP) \div 10        \* w
cognitive_param == (15 * FP) \div 10       \* c1
social_param    == (15 * FP) \div 10       \* c2

\* The bounds the caller passes, a (min, max) pair per dimension: one range
\* for every stage, or the stage windows.
PsoBoundsSet ==
    {<<<<(2 * FP) \div 10, FP>>, <<(2 * FP) \div 10, FP>>>>,
     <<<<(18 * FP) \div 100, (96 * FP) \div 100>>, <<(12 * FP) \div 1000, TOTAL_DELTA_V>>>>}

PsoInitialGuess == <<(4 * FP) \div 10, (6 * FP) \div 10>>

\* Rows np.random.uniform(low, high) can return under either bounds.
PsoPositionGrid == <<<<(6 * FP) \div 10, (7 * FP) \div 10>>,
                     <<(3 * FP) \div 10, (8 * FP) \div 10>>,
                     <<(9 * FP) \div 10, (4 * FP) \div 10>>,
                     <<(25 * FP) \div 100, (95 * FP) \div 100>>>>

\* v_max = 0.1 * (TOTAL_DELTA_V / n_var)
PsoVMax(n_var) == FMul(FP \div 10, FDiv(TOTAL_DELTA_V, n_var * FP))

\* Rows np.random.uniform(-v_max, v_max) can return.
PsoVelocityGrid(v_max) == <<<<v_max, -v_max>>, <<-(v_max \div 2), 0>>, <<0, v_max \div 2>>>>

\* Pairs (r1, r2) np.random.rand(2) can return.
PsoRandPairs == {<<0, FP \div 2>>, <<FP \div 2, (9 * FP) \div 10>>,
                 <<(9 * FP) \div 10, 0>>, <<FP \div 2, FP \div 2>>}

PsoDraws == 1..3

\* objective(dv) of solve_with_pso
PsoObjective(dv) == SolverObjective("pso", dv)

\* np.clip(v, lo, hi) on finite values
PsoClip(v, lo, hi) == Max2(lo, Min2(v, hi))

\* The position gbest names: a row of pbest while gbest is the view
\* pbest[np.argmin(pbest_values)], its own array after particles[min_idx].copy().
GbestPosition(gbest, pbest) == IF gbest.view THEN pbest[gbest.row] ELSE gbest.x

PsoStart(bounds) ==
    [solver |-> "pso", pc |-> "initialize", bounds |-> bounds,
     n_var |-> Len(PsoInitialGuess), v_max |-> PsoVMax(Len(PsoInitialGuess)),
     particles |-> <<>>, velocities |-> <<>>, pbest |-> <<>>, pbest_values |-> <<>>,
     gbest |-> [view |-> TRUE, row |-> 1, x |-> <<>>], gbest_value |-> 0,
     previous_gbest_value |-> 0, evaluated |-> {}, iteration |-> 0, n_evals |-> 0,
     clipped |-> FALSE, optimal_dv |-> <<>>]

\* Lines 725-745: the swarm, the velocities and the first bests.
PSOInitialize ==
    /\ loop.solver = "pso" /\ loop.pc = "initialize"
    /\ \E k \in PsoDraws :
        LET particles == [p \in 1..PsoParticles |->
                            IF p = 1 THEN PsoInitialGuess
                            ELSE PsoPositionGrid[((p + k) % Len(PsoPositionGrid)) + 1]]
            grid == PsoVelocityGrid(loop.v_max)
            velocities == [p \in 1..PsoParticles |-> grid[((p + k) % Len(grid)) + 1]]
            pbest_values == [p \in 1..PsoParticles |-> PsoObjective(particles[p])]
        IN  loop' = [loop EXCEPT !.pc = "iterate",
                                 !.particles = particles,
                                 !.velocities = velocities,
                                 !.pbest = particles,
                                 !.pbest_values = pbest_values,
                                 !.gbest = [view |-> TRUE, row |-> ArgMin(pbest_values),
                                            x |-> <<>>],
                                 !.gbest_value = MinOf(pbest_values),
                                 !.previous_gbest_value = MinOf(pbest_values),
                                 !.evaluated = {pbest_values[p] : p \in 1..PsoParticles},
                                 !.n_evals = PsoParticles]
    /\ UNCHANGED <<physVars, cacheVars, driverVars, gaVars>>

\* Lines 772-776, taking min_idx from the first particle instead of np.argmin.
PsoGlobalBestOfFirst(st, particles, values) ==
    LET min_idx == 1
    IN  IF FLt(values[min_idx], st.gbest_value)
        THEN [gbest |-> [view |-> FALSE, row |-> 0, x |-> particles[min_idx]],
              gbest_value |-> values[min_idx]]
        ELSE [gbest |-> st.gbest, gbest_value |-> st.gbest_value]

\* Lines 772-776: the global best after an iteration's evaluation.
PsoGlobalBest(st, particles, values) ==
    LET min_idx == ArgMin(values)
    IN  IF FLt(values[min_idx], st.gbest_value)
        THEN [gbest |-> [view |-> FALSE, row |-> 0, x |-> particles[min_idx]],
              gbest_value |-> values[min_idx]]
        ELSE [gbest |-> st.gbest, gbest_value |-> st.gbest_value]

\* Lines 746-776: one pass of the optimization loop.
PSOIteration ==
    /\ loop.solver = "pso" /\ loop.pc = "iterate"
    /\ loop.iteration < PsoIterations
    /\ \E r \in PsoRandPairs :
        LET r1 == r[1]
            r2 == r[2]
            gpos == GbestPosition(loop.gbest, loop.pbest)
            raw == [p \in 1..PsoParticles |-> [d \in 1..loop.n_var |->
                      FAdd(FAdd(FMul(inertia_weight, loop.velocities[p][d]),
                                FMul(FMul(cognitive_param, r1),
                                     FSub(loop.pbest[p][d], loop.particles[p][d]))),
                           FMul(FMul(social_param, r2),
                                FSub(gpos[d], loop.particles[p][d])))]]
            velocities == [p \in 1..PsoParticles |-> [d \in 1..loop.n_var |->
                             PsoClip(raw[p][d], -loop.v_max, loop.v_max)]]
            moved == [p \in 1..PsoParticles |-> [d \in 1..loop.n_var |->
                        FAdd(loop.particles[p][d], velocities[p][d])]]
            particles == [p \in 1..PsoParticles |-> [d \in 1..loop.n_var |->
                            PsoClip(moved[p][d], loop.bounds[d][1], loop.bounds[d][2])]]
            values == [p \in 1..PsoParticles |-> PsoObjective(particles[p])]
            improved == [p \in 1..PsoParticles |-> FLt(values[p], loop.pbest_values[p])]
            pbest == [p \in 1..PsoParticles |->
                        IF improved[p] THEN particles[p] ELSE loop.pbest[p]]
            pbest_values == [p \in 1..PsoParticles |->
                               IF improved[p] THEN values[p] ELSE loop.pbest_values[p]]
            global == PsoGlobalBest(loop, particles, values)
        IN  loop' = [loop EXCEPT !.particles = particles,
                                 !.velocities = velocities,
                                 !.pbest = pbest,
                                 !.pbest_values = pbest_values,
                                 !.gbest = global.gbest,
                                 !.gbest_value = global.gbest_value,
                                 !.previous_gbest_value = loop.gbest_value,
                                 !.evaluated = @ \cup {values[p] : p \in 1..PsoParticles},
                                 !.n_evals = @ + PsoParticles,
                                 !.clipped = raw # velocities \/ moved # particles,
                                 !.iteration = @ + 1]
    /\ UNCHANGED <<physVars, cacheVars, driverVars, gaVars>>

\* Line 779: optimal_dv = gbest, after n_iterations passes.
PSOFinish ==
    /\ loop.solver = "pso" /\ loop.pc = "iterate"
    /\ loop.iteration = PsoIterations
    /\ loop' = [loop EXCEPT !.pc = "done",
                            !.optimal_dv = GbestPosition(loop.gbest, loop.pbest)]
    /\ UNCHANGED <<physVars, cacheVars, driverVars, gaVars>>

-----------------------------------------------------------------------------
(* Specifications *)

\* The part of the state a specification does not use stays at these values.
DriverIdle ==
    /\ stages = <<>>
    /\ cfgBounds = [max_dv_factor |-> FP, min_dv |-> 0]
    /\ mode = "idle"
    /\ methods = <<>>
    /\ calls = <<>>
    /\ results = <<>>
    /\ errLog = <<>>
    /\ exitStatus = "idle"

\* optimize_stages and __main__
Init == DriverInit /\ call = IdleCall /\ CacheInit /\ ga = GaIdle /\ loop = LoopIdle
Next ==
    \/ CallUnsupported
    \/ CallSupported
    \/ MainMethodReturns
    \/ MainMethodFails
    \/ GenerateReportFails
    \/ GenerateReport
Spec == Init /\ [][Next]_vars

\* One call of a pure function: the physics model and the repair operators
InitPure == call = IdleCall /\ CacheInit /\ DriverIdle /\ ga = GaIdle /\ loop = LoopIdle
NextPure ==
    \/ CallMassRatios
    \/ CallPayloadFraction
    \/ CallPayloadMass
    \/ CallObjective
    \/ CallObjectiveWithPenalty
    \/ CallSolversStageRatios
    \/ CallRepairDeltaV
    \/ CallProjectToFeasible
    \/ CallSolver
    \/ CallPenalties
    \/ CallAdaptiveGAMutation
    \/ CallEvaluatePopulation
    \/ CallSolverObjective
    \/ CallGaSetUp
SpecPure == InitPure /\ [][NextPure]_vars

\* One problem instance, its cache, and the evaluations made on it
InitCache == CacheInit /\ call = IdleCall /\ DriverIdle /\ ga = GaIdle /\ loop = LoopIdle
NextCache ==
    \/ EvalObjective
    \/ EvalProblem
    \/ GAFinalAdd
SpecCache == InitCache /\ [][NextCache]_vars

\* Two runs of one solve_with_ga on the same inputs.  Whether pymoo's
\* evaluator hands _evaluate a config, and whether its result reports
\* success, are fixed for both runs.
InitGA ==
    /\ call = IdleCall /\ CacheInit /\ DriverIdle /\ loop = LoopIdle
    /\ \E variant \in GaVariants, withConfig \in BOOLEAN, libSuccess \in BOOLEAN :
        /\ variant = "payload_optimization" => ~withConfig
        /\ variant = "solvers" => libSuccess
        /\ ga = GaStart(variant, withConfig, libSuccess, 1, NoRun)
NextGA ==
    \/ GAInitialPopulation
    \/ GAMate
    \/ GAEvaluate
    \/ GAFinish
    \/ GASecondRun
SpecGA == InitGA /\ [][NextGA]_vars

\* One run of an adaptive GA.
InitAdaptiveGA ==
    /\ call = IdleCall /\ CacheInit /\ DriverIdle /\ ga = GaIdle
    /\ \E variant \in GaVariants, threshold \in StagnationThresholds,
          rates \in InitialRates :
        loop = AgaStart(variant, threshold, rates)
NextAdaptiveGA ==
    \/ AgaGeneration
    \/ PackageAgaGeneration
SpecAdaptiveGA == InitAdaptiveGA /\ [][NextAdaptiveGA]_vars

\* One run of DifferentialEvolutionSolver.optimize.
InitDE ==
    /\ call = IdleCall /\ CacheInit /\ DriverIdle /\ ga = GaIdle
    /\ \E lim \in LoopLimits : loop = DeStart(lim[1], lim[2])
NextDE ==
    \/ DEInitialize
    \/ DETrial
    \/ DECheck
    \/ DEFinish
SpecDE == InitDE /\ [][NextDE]_vars

\* One run of solve_with_pso under either kind of bounds.
InitPSO ==
    /\ call = IdleCall /\ CacheInit /\ DriverIdle /\ ga = GaIdle
    /\ \E bounds \in PsoBoundsSet : loop = PsoStart(bounds)
NextPSO ==
    \/ PSOInitialize
    \/ PSOIteration
    \/ PSOFinish
SpecPSO == InitPSO /\ [][NextPSO]_vars


-----------------------------------------------------------------------------
(* Properties of the driver *)

\* C1: a call of optimize_stages with a method name outside the dispatched
\* names raises NotImplementedError, the message carries the name as given,
\* no solver is entered and no results dict is returned.
C1_UnsupportedMethodFails ==
    \A i \in 1..Len(calls) :
        Upper(calls[i].method) \notin DispatchedNames =>
            /\ calls[i].outcome = "error"
            /\ calls[i].error = [type |-> "NotImplementedError", names |-> calls[i].method]
            /\ calls[i].solver = "none"
            /\ calls[i].result = NoResult

C1_Witness ==
    \E i \in 1..Len(calls) :
        /\ calls[i].method = "PSO"
        /\ Len(stages) > 0
        /\ calls[i].outcome = "error"
        /\ calls[i].error.names = "PSO"

\* C2: when the comparison run of __main__ has ended, every method of the
\* list was attempted once and in list order, every failure was logged for its
\* method, the results of the methods that returned were kept, and the run
\* ended with the report instead of aborting.
C2_RunIsolatesFailures ==
    (mode = "main" /\ exitStatus # "running") =>
        /\ [i \in 1..Len(calls) |-> calls[i].method] = MainMethods
        /\ Len(errLog) + Len(results) = Len(MainMethods)
        /\ \A i \in 1..Len(calls) :
               calls[i].outcome = "error" => \E j \in 1..Len(errLog) : errLog[j] = calls[i].method
        /\ exitStatus = "ok"

C2_Witness ==
    /\ mode = "main"
    /\ exitStatus = "exit1"
    /\ Len(errLog) = Len(MainMethods)
    /\ ValidStages(stages)

\* C3: a call whose derived bounds have min_dv above max_dv for some stage
\* fails before a solver is dispatched: it enters no solver and returns no
\* results dict.
C3_InfeasibleBoundsFailFast ==
    \A i \in 1..Len(calls) :
        ~Feasible(calls[i].bounds) =>
            /\ calls[i].solver = "none"
            /\ calls[i].outcome = "error"

C3_Witness ==
    \E i \in 1..Len(calls) :
        /\ ~Feasible(calls[i].bounds)
        /\ calls[i].solver = "solve_with_slsqp"

\* C4: a call with a supported method whose stage list is empty or holds a
\* stage with ISP <= 0 or a structural fraction >= 1 raises and returns no
\* results dict.
C4_InvalidStagesFail ==
    \A i \in 1..Len(calls) :
        (~ValidStages(stages) /\ Upper(calls[i].method) \in DispatchedNames) =>
            /\ calls[i].outcome = "error"
            /\ calls[i].result = NoResult

C4_Witness ==
    \E i \in 1..Len(calls) :
        /\ Len(stages) = 1 /\ stages[1].EPSILON = FP
        /\ calls[i].method = "SLSQP"
        /\ calls[i].outcome = "result"


-----------------------------------------------------------------------------
(* Properties of the repair operators *)

\* A candidate the repair operators are meant for: no negative component and
\* a sum that is not zero.
RepairableCandidate(x) ==
    /\ \A i \in 1..Len(x) : RLe(<<0, 1>>, x[i])
    /\ RSum(x) # <<0, 1>>

\* C5: the vector RepairDeltaV._do (GA) and project_to_feasible (DE) return
\* for a non-negative candidate with a non-zero sum has a sum within 1e-6 of
\* TOTAL_DELTA_V.
C5_RepairedSumIsTotal ==
    (/\ call.fn \in {"RepairDeltaV._do", "project_to_feasible"}
     /\ RepairableCandidate(call.arg)) =>
        /\ ~RIsNaN(RSum(call.ret))
        /\ ~ExceedsTol(RAbs(RSub(RSum(call.ret), RTotal)), 3)

C5_Witness ==
    /\ call.fn = "project_to_feasible"
    /\ RepairableCandidate(call.arg)
    /\ RSum(call.arg) = RTotal
    /\ RSum(call.ret) = ROne

\* The GA's operator alone does bring the sum to TOTAL_DELTA_V.
C5_GARepairSumIsTotal ==
    (call.fn = "RepairDeltaV._do" /\ RepairableCandidate(call.arg)) =>
        RSum(call.ret) = RTotal


-----------------------------------------------------------------------------
(* Properties of the physics model *)

\* What the data model asks of a payload fraction ret computed from the
\* ratios mr: 0 when a ratio is <= 0, else their product, and within [0, 1]
\* when every ratio is in (0, 1].
PayloadFractionContract(mr, ret) ==
    /\ (\E i \in 1..Len(mr) : FLe(mr[i], 0)) => ret = 0
    /\ (\A i \in 1..Len(mr) : FGt(mr[i], 0)) => ret = FProd(mr)
    /\ (\A i \in 1..Len(mr) : FGt(mr[i], 0) /\ FLe(mr[i], FP)) =>
           FLe(0, ret) /\ FLe(ret, FP)

\* C6: wherever a payload fraction is computed (calculate_payload_fraction,
\* calculate_payload_mass, the evaluation of RocketOptimizationProblem), it
\* is the product of the ratios, 0 when a ratio is <= 0, and in [0, 1] when
\* the ratios are positive.
C6_PayloadFractionIsProduct ==
    call.fn \in {"calculate_payload_fraction", "calculate_payload_mass",
                 "solvers_stage_ratios"} =>
        PayloadFractionContract(call.mr, call.ret)

C6_Witness ==
    /\ call.fn = "calculate_payload_fraction"
    /\ call.mr = <<FP \div 2, FP \div 2>>
    /\ call.ret = 4 * FP

\* exp(-dv_i / (G0 * ISP_i)) - epsilon_i, the mass ratio of the data model.
SpecMassRatio(dvi, g0, isp, eps) == FSub(Exp2(FNeg(ExpArg(dvi, g0, isp))), eps)

\* C7: every mass ratio computed for dv_i >= 0 and ISP_i > 0 equals
\* exp(-dv_i / (G0 * ISP_i)) - epsilon_i, is finite and within
\* [-epsilon_i, 1 - epsilon_i], and a larger dv_i never gives a larger one.
C7_MassRatioFormula ==
    call.fn = "calculate_mass_ratios" =>
        \A i \in 1..Len(call.arg) :
            /\ IsFinite(call.ret[i])
            /\ call.ret[i] = SpecMassRatio(call.arg[i], G0_981, call.ISP[i], call.EPSILON[i])
            /\ FLe(-call.EPSILON[i], call.ret[i])
            /\ FLe(call.ret[i], FP - call.EPSILON[i])
            /\ \A d \in DvGrid :
                   d >= call.arg[i] =>
                       FLe(calculate_mass_ratios(<<d>>, <<call.ISP[i]>>,
                                                 <<call.EPSILON[i]>>)[1],
                           call.ret[i])

C7_Witness ==
    /\ call.fn = "calculate_mass_ratios"
    /\ call.arg = <<30 * FP>> /\ call.ISP = <<1>>
    /\ call.ret = <<PInf>>

\* The lambda_val of solvers.py does follow the formula.
C7_SolversMassRatio ==
    call.fn = "solvers_stage_ratios" =>
        \A i \in 1..Len(call.arg) :
            /\ IsFinite(call.mr[i])
            /\ call.mr[i] = SpecMassRatio(call.arg[i], G0_981, call.ISP[i], call.EPSILON[i])
            /\ FLe(-call.EPSILON[i], call.mr[i])
            /\ FLe(call.mr[i], FP - call.EPSILON[i])

\* A call whose mass-ratio or payload computation meets a numeric error: a
\* malformed argument, or an overflow to inf along the way.
NumericError ==
    \/ ~WellFormed(call.arg, call.ISP, call.EPSILON)
    \/ \E i \in 1..Len(call.mr) : ~IsFinite(call.mr[i])

\* C8: the objective returns a finite value for every candidate, and at
\* least the sentinel 1e6 when the computation met a numeric error.
C8_ObjectiveFiniteOrSentinel ==
    call.fn \in {"payload_fraction_objective", "objective_with_penalty"} =>
        /\ IsFinite(call.ret)
        /\ NumericError => FLe(Sentinel, call.ret)

C8_Witness ==
    /\ call.fn = "payload_fraction_objective"
    /\ \E i \in 1..Len(call.arg) : IsNaN(call.arg[i])
    /\ IsNaN(call.ret)


-----------------------------------------------------------------------------
(* Properties of the cache and of the cache-backed objectives *)

\* C9: the value an evaluation returns for a candidate is the value the same
\* evaluation returns for it on a fresh problem instance, whatever was
\* evaluated or added before it.
C9_ObjectiveDependsOnCandidateOnly ==
    \A i \in 1..Len(evalLog) :
        evalLog[i].value =
            IF evalLog[i].fn = "objective"
            THEN CachedObjective(EmptyCache, evalLog[i].x).value
            ELSE ProblemEvaluateOne(EmptyCache, evalLog[i].x).value

C9_Witness ==
    /\ Len(evalLog) = 2
    /\ evalLog[1].x # evalLog[2].x
    /\ Quantize(evalLog[1].x) = Quantize(evalLog[2].x)
    /\ evalLog[2].hit
    /\ evalLog[2].value # ProblemEvaluateOne(EmptyCache, evalLog[2].x).value

\* The adds made so far on the key of x, by their position in addLog.
AddsOnKeyOf(x) == {i \in 1..Len(addLog) : Quantize(addLog[i].x) = Quantize(x)}
LastOf(S) == CHOOSE i \in S : \A j \in S : j <= i

-----------------------------------------------------------------------------
(* Properties of the result of optimize_stages *)

\* C11: the results dict of a call on valid stages and feasible bounds carries the payload
\* fraction of its final candidate, with no penalty term in it, and the
\* error |sum(final candidate) - TOTAL_DELTA_V|.
C11_RecordRecomputedFromCandidate ==
    \A i \in 1..Len(calls) :
        (calls[i].outcome = "result" /\ ValidStages(stages)
                                      /\ Feasible(calls[i].bounds)) =>
            LET r       == calls[i].result
                ISP     == [k \in 1..Len(stages) |-> stages[k].ISP]
                EPSILON == [k \in 1..Len(stages) |-> stages[k].EPSILON]
            IN  /\ r.payload_fraction =
                       calculate_payload_fraction(calculate_mass_ratios(r.dv, ISP, EPSILON))
                /\ r.error = FAbs(FSub(FSum(r.dv), TOTAL_DELTA_V))

C11_Witness ==
    \E i \in 1..Len(calls) :
        LET r       == calls[i].result
            ISP     == [k \in 1..Len(stages) |-> stages[k].ISP]
            EPSILON == [k \in 1..Len(stages) |-> stages[k].EPSILON]
        IN  /\ calls[i].outcome = "result"
            /\ ValidStages(stages)
            /\ Feasible(calls[i].bounds)
            /\ calls[i].method = "SLSQP"
            /\ r.dv[1] = 0
            /\ r.payload_fraction #
                   calculate_payload_fraction(calculate_mass_ratios(r.dv, ISP, EPSILON))
            /\ r.error = FAbs(FSub(FSum(r.dv), TOTAL_DELTA_V))


\* The per-stage bounds of the data model: [0.15, 0.80] x total for the first
\* stage, [0.01 x total, max_dv_factor x total] for the others.
WindowBounds(n, cfg, total) ==
    [k \in 1..n |->
        IF k = 1
        THEN [lo |-> FMul((15 * FP) \div 100, total), hi |-> FMul((80 * FP) \div 100, total)]
        ELSE [lo |-> FMul(FP \div 100, total), hi |-> FMul(cfg.max_dv_factor, total)]]

\* C12: every call on valid stages that dispatches a solver hands it an initial guess whose
\* components all equal TOTAL_DELTA_V / n, and the bounds
\* [0.15, 0.80] x total for the first stage and
\* [0.01 x total, max_dv_factor x total] for every other stage.
C12_GuessAndWindowBounds ==
    \A i \in 1..Len(calls) :
        (calls[i].solver # "none" /\ ValidStages(stages) /\ Feasible(calls[i].bounds)) =>
            /\ calls[i].initial_guess =
                   [k \in 1..Len(stages) |-> FDiv(TOTAL_DELTA_V, Len(stages) * FP)]
            /\ calls[i].bounds = WindowBounds(Len(stages), cfgBounds, TOTAL_DELTA_V)

C12_Witness ==
    \E i \in 1..Len(calls) :
        /\ calls[i].solver = "solve_with_slsqp"
        /\ ValidStages(stages)
        /\ Len(stages) = 2
        /\ calls[i].initial_guess = <<(6 * FP) \div 10, (6 * FP) \div 10>>
        /\ cfgBounds.min_dv = 0
        /\ calls[i].bounds[1] = [lo |-> 0, hi |-> TOTAL_DELTA_V]
        /\ calls[i].bounds[2] = calls[i].bounds[1]


\* C13: when the library minimizer returned a candidate and reported no
\* success, the results dict is built from that very candidate and says
\* success = false.
C13_NonConvergedCandidateKept ==
    \A i \in 1..Len(calls) :
        (/\ calls[i].outcome = "result"
         /\ calls[i].library.kind = "return" /\ ~calls[i].library.none
         /\ ~calls[i].library.success
         /\ ValidStages(stages) /\ Feasible(calls[i].bounds)) =>
            /\ calls[i].result.dv = calls[i].library.x
            /\ "success" \in DOMAIN calls[i].result
            /\ calls[i].result["success"] = FALSE

C13_Witness ==
    \E i \in 1..Len(calls) :
        /\ calls[i].solver = "solve_with_ga"
        /\ calls[i].outcome = "result"
        /\ ValidStages(stages) /\ Feasible(calls[i].bounds)
        /\ calls[i].library.kind = "return" /\ ~calls[i].library.none
        /\ ~calls[i].library.success
        /\ calls[i].library.x # calls[i].initial_guess
        /\ calls[i].result.dv = calls[i].initial_guess

\* The gradient solver and basin hopping do keep the candidate.
C13_ScipyCandidateKept ==
    \A i \in 1..Len(calls) :
        (/\ calls[i].outcome = "result"
         /\ calls[i].solver \in {"solve_with_slsqp", "solve_with_basin_hopping"}) =>
            calls[i].result.dv = calls[i].library.x


-----------------------------------------------------------------------------
(* Properties of the solver functions *)

\* The fields of the uniform result record, and of each of its stages.
RecordKeys      == {"success", "message", "payload_fraction", "stages",
                    "n_iterations", "n_function_evals"}
RecordStageKeys == {"stage", "delta_v", "mass_ratio", "Lambda"}

\* C14: every solver function that returns, returns a dict with the fields of
\* the uniform record and one entry per stage carrying the stage index,
\* delta_v, mass_ratio and lambda; none returns a bare vector or None.
C14_UniformResultRecord ==
    (call.fn \in MonolithSolvers \cup PackageSolvers /\ call.ret.kind # "raise") =>
        /\ call.ret.kind = "dict"
        /\ RecordKeys \subseteq call.ret.keys
        /\ Len(call.ret.stages) = Len(call.arg)
        /\ \A k \in 1..Len(call.ret.stages) : RecordStageKeys \subseteq call.ret.stages[k]

C14_Witness ==
    /\ call.fn = "solvers.solve_with_adaptive_ga"
    /\ call.ret.kind = "None"

\* The solvers of solvers.py other than the adaptive GA do return that record.
C14_PackageSolversUniform ==
    (/\ call.fn \in PackageSolvers \ {"solvers.solve_with_adaptive_ga"}
     /\ call.ret.kind # "raise") =>
        /\ call.ret.kind = "dict"
        /\ RecordKeys \subseteq call.ret.keys
        /\ Len(call.ret.stages) = Len(call.arg)
        /\ \A k \in 1..Len(call.ret.stages) : RecordStageKeys \subseteq call.ret.stages[k]


-----------------------------------------------------------------------------
(* Properties of the constraint engine *)

\* C15: for every candidate, the violation the gradient solver's constraints
\* measure is the one enforce_stage_constraints returns (the GA's constraint
\* value), and the penalty of each stochastic solver (basin hopping, DE, PSO)
\* is the coefficient 1e6 times that violation.
C15_SameViolationMagnitude ==
    call.fn = "constraint_penalties" =>
        /\ call.ret.enforce = call.ret.slsqp
        /\ call.ret.term = FMul(10^6 * FP, call.ret.slsqp)
        /\ call.ret.pso  = FMul(10^6 * FP, call.ret.slsqp)

C15_Witness ==
    /\ call.fn = "constraint_penalties"
    /\ call.arg = <<FP \div 10, (11 * FP) \div 10>>
    /\ call.ret.slsqp = (8 * FP) \div 100
    /\ call.ret.term = 10^6 * ((8 * FP) \div 100)
    /\ call.ret.pso = 10^6 * FP

\* All paths but the PSO's do share the violation.
C15_AllButPso ==
    call.fn = "constraint_penalties" =>
        /\ call.ret.enforce = call.ret.slsqp
        /\ call.ret.term = FMul(10^6 * FP, call.ret.slsqp)


(* C16, C17: the genetic algorithm's seed and repair *)

GaRunTwice == ga.run = 2 /\ ga.pc = "done"

C16_SeededSamplingAgrees ==
    (GaRunTwice /\ ga.variant = "payload_optimization") => ga.result = ga.first

C17_RepairConfiguredOffspring ==
    ga.variant = "payload_optimization" =>
        \A i \in 1..Len(ga.evals) :
            ga.evals[i].kind = "offspring" =>
                /\ ga.evals[i].repaired
                /\ ~ExceedsTol(RAbs(RSub(RSum(ga.evals[i].x), RTotal)), 3)

(* C18: the repaired candidate and its bounds *)

WithinBounds(x, b) ==
    \A i \in 1..Len(x) : RLe(b[i].lo, x[i]) /\ RLe(x[i], b[i].hi)

\* The bounds admit a candidate whose sum is total.
BoundsAdmit(b, total) == RLe(RSum(Lows(b)), total) /\ RLe(total, RSum(Highs(b)))

\* The candidate a repair call returned, for the three operators.
RepairOutput ==
    IF call.fn = "AdaptiveGA.mutation" THEN call.ret.x ELSE call.ret

RepairActed ==
    \/ call.fn = "RepairDeltaV._do" /\ BoundsAdmit(call.bounds, RTotal)
                                    /\ call.ret # call.arg
    \/ call.fn = "project_to_feasible" /\ BoundsAdmit(call.bounds, ROne)
                                       /\ call.ret # call.arg
    \/ call.fn = "AdaptiveGA.mutation" /\ BoundsAdmit(call.bounds, RTotal)
                                       /\ call.ret.mutated

\* C18: after RepairDeltaV._do, project_to_feasible and the clip-then-rescale
\* step of AdaptiveGA.mutation, every component of the candidate lies within
\* its stage's [min, max] bound.
C18_RepairedWithinBounds ==
    (RepairActed /\ \A i \in 1..Len(RepairOutput) : ~RIsNaN(RepairOutput[i]))
        => WithinBounds(RepairOutput, call.bounds)

C18_Witness ==
    /\ RepairActed
    /\ WithinBounds(RepairOutput, call.bounds)

(* C19: evaluating a population *)

EvaluatedEveryMember ==
    /\ ~call.ret.raised
    /\ Len(call.ret.F) = Len(call.arg)
    /\ Len(call.ret.G) = Len(call.arg)

\* C19: _evaluate of either problem class, with or without a config, raises
\* nothing and yields an objective and a constraint value for every member
\* of the population.
C19_EvaluateNeverPropagates ==
    call.fn = "_evaluate" => EvaluatedEveryMember

C19_Witness ==
    /\ call.fn = "_evaluate"
    /\ call.ret.problem = "RocketOptimizationProblem"
    /\ EvaluatedEveryMember

\* OptimizationProblem._evaluate, and RocketOptimizationProblem._evaluate when
\* it is handed a config, do evaluate every member.
C19_EvaluatesWhenConfigGiven ==
    (/\ call.fn = "_evaluate"
     /\ call.ret.problem = "RocketOptimizationProblem" => call.ret.config)
        => EvaluatedEveryMember

(* C20: the constraint penalty *)

\* The values of max_dv_factor the windows are taken with.
MaxDvFactors == {(8 * FP) \div 10, FP}

\* The positive distance of v outside [w.lo, w.hi].
DistanceOutside(v, w) ==
    IF FLt(v, w.lo) THEN FSub(w.lo, v) ELSE IF FGt(v, w.hi) THEN FSub(v, w.hi) ELSE 0

RECURSIVE WindowViolationFrom(_, _, _)
WindowViolationFrom(dv, w, i) ==
    IF i > Len(dv) THEN 0
    ELSE FAdd(DistanceOutside(dv[i], w[i]), WindowViolationFrom(dv, w, i + 1))

\* |sum(candidate) - total| plus every stage's distance outside its window.
SpecPenalty(dv, total, factor) ==
    FAdd(FAbs(FSub(FSum(dv), total)),
         WindowViolationFrom(dv, WindowBounds(Len(dv), [max_dv_factor |-> factor], total), 1))

InsideWindows(dv, total, factor) ==
    \A i \in 1..Len(dv) :
        DistanceOutside(dv[i], WindowBounds(Len(dv), [max_dv_factor |-> factor], total)[i]) = 0

PenaltyAsSpecified(dv, p, factor) ==
    /\ p = SpecPenalty(dv, TOTAL_DELTA_V, factor)
    /\ p >= 0
    /\ p = 0 <=> (FSum(dv) = TOTAL_DELTA_V /\ InsideWindows(dv, TOTAL_DELTA_V, factor))

\* C20: enforce_stage_constraints(candidate) is |sum - total| plus each
\* stage's positive distance outside its [min, max] window, is never negative,
\* and is 0 exactly when the sum is the total and every stage is inside its
\* window.
C20_PenaltyIsDistanceOutsideWindows ==
    (call.fn = "constraint_penalties" /\ Len(call.arg) >= 1) =>
        \A factor \in MaxDvFactors : PenaltyAsSpecified(call.arg, call.ret.enforce, factor)

C20_Witness ==
    /\ call.fn = "constraint_penalties"
    /\ Len(call.arg) >= 2
    /\ call.ret.enforce > 0
    /\ \A factor \in MaxDvFactors : PenaltyAsSpecified(call.arg, call.ret.enforce, factor)

\* For candidates whose later stages do not exceed the upper end of their
\* window the penalty is as specified.
C20_PenaltyWhenLaterStagesBelowMax ==
    (call.fn = "constraint_penalties" /\ Len(call.arg) >= 1) =>
        \A factor \in MaxDvFactors :
            (\A i \in 2..Len(call.arg) : FLe(call.arg[i], FMul(factor, TOTAL_DELTA_V)))
                => PenaltyAsSpecified(call.arg, call.ret.enforce, factor)

(* C21, C22: the adaptive GA's stagnation counter and rates *)

\* The best fitness of the generations before generation i (-inf before the
\* first).
RECURSIVE BestBefore(_, _)
BestBefore(h, i) ==
    IF i <= 1 THEN NInf
    ELSE LET b == BestBefore(h, i - 1)
         IN  IF FGt(h[i - 1].best, b) THEN h[i - 1].best ELSE b

\* The number of consecutive generations up to generation i that did not
\* improve the best fitness.
RECURSIVE Stagnation(_, _)
Stagnation(h, i) ==
    IF i = 0 \/ FGt(h[i].best, BestBefore(h, i)) THEN 0
    ELSE 1 + Stagnation(h, i - 1)

AgaLoopAsSpecified ==
    LET k == Stagnation(loop.history, Len(loop.history))
    IN  /\ loop.pc = "generation" =>
            k < loop.stagnation_threshold /\ Len(loop.history) < AgaGenerations
        /\ loop.pc = "done" =>
            \/ loop.stop = "stagnation" /\ k = loop.stagnation_threshold
            \/ /\ loop.stop = "n_generations"
               /\ Len(loop.history) = AgaGenerations
               /\ k < loop.stagnation_threshold
        /\ loop.generations_without_improvement = k

\* C21: the generation loop of every adaptive GA stops as soon as the number
\* of consecutive generations without improvement reaches the stagnation
\* threshold, and otherwise after n_generations generations; the counter is
\* 0 after every improving generation.
C21_StopsOnStagnationOrBudget ==
    loop.solver = "adaptive_ga" => AgaLoopAsSpecified

C21_Witness ==
    /\ loop.solver = "adaptive_ga"
    /\ loop.pc = "done" /\ loop.stop = "stagnation"
    /\ Len(loop.history) > loop.stagnation_threshold
    /\ AgaLoopAsSpecified

\* AdaptiveGA.optimize of payload_optimization.py does stop that way.
C21_MonolithStopsOnStagnationOrBudget ==
    (loop.solver = "adaptive_ga" /\ loop.variant = "payload_optimization")
        => AgaLoopAsSpecified

\* The rates the run started with.
AgaInitialRates ==
    IF loop.history = <<>>
    THEN [mutation_rate |-> loop.mutation_rate, crossover_rate |-> loop.crossover_rate]
    ELSE [mutation_rate |-> loop.history[1].mutation_rate,
          crossover_rate |-> loop.history[1].crossover_rate]

RatesWithin(r, lim) ==
    /\ lim.min_mutation_rate <= r.mutation_rate
    /\ r.mutation_rate <= lim.max_mutation_rate
    /\ lim.min_crossover_rate <= r.crossover_rate
    /\ r.crossover_rate <= lim.max_crossover_rate

\* The last generation's update went in the specified direction.
LastUpdateDirection ==
    LET e == loop.history[Len(loop.history)]
    IN  /\ e.lowDiversity => loop.mutation_rate >= e.mutation_rate
        /\ (e.lowDiversity /\ e.mutation_rate < RateLimits(loop.variant).max_mutation_rate)
                => loop.mutation_rate > e.mutation_rate
        /\ ~e.lowDiversity => loop.mutation_rate <= e.mutation_rate
        /\ loop.crossover_rate > e.crossover_rate => e.gwi > 0

\* C22: with initial rates inside their limits, the mutation and crossover
\* rates stay inside their limits after every generation; the mutation rate
\* is raised when diversity is low and lowered otherwise, and the crossover
\* rate is raised only under stagnation.
C22_RatesStayWithinLimits ==
    (/\ loop.solver = "adaptive_ga"
     /\ RatesWithin(AgaInitialRates, RateLimits(loop.variant)))
        => /\ RatesWithin(loop, RateLimits(loop.variant))
           /\ (loop.history # <<>> /\ loop.stop # "stagnation") => LastUpdateDirection

C22_Witness ==
    /\ loop.solver = "adaptive_ga"
    /\ RatesWithin(AgaInitialRates, RateLimits(loop.variant))
    /\ Len(loop.history) >= 2
    /\ loop.crossover_rate > loop.history[Len(loop.history)].crossover_rate
    /\ loop.mutation_rate = RateLimits(loop.variant).max_mutation_rate
    /\ loop.history[Len(loop.history)].mutation_rate < loop.mutation_rate

(* C23, C24, C27, C30: the differential evolution loop *)

DeDone == loop.solver = "de" /\ loop.pc = "done"

FeasibleEvaluated == {k \in loop.evaluated : DeFeasible(k)}

\* C23: the DE solver returns success = true with the lowest-objective
\* feasible candidate it evaluated exactly when it evaluated a feasible
\* candidate; otherwise the candidate of the best penalized score with
\* success = false.
C23_FeasibleBestOrPenalizedBest ==
    DeDone =>
        /\ loop.result.success <=> FeasibleEvaluated # {}
        /\ loop.result.success =>
            /\ loop.result.x \in FeasibleEvaluated
            /\ \A k \in FeasibleEvaluated : loop.result.x.obj <= k.obj
        /\ ~loop.result.success =>
            /\ loop.result.x \in loop.evaluated
            /\ \A k \in loop.evaluated : DeScore(loop.result.x) <= DeScore(k)

C23_Witness ==
    /\ DeDone
    /\ loop.result.success
    /\ Cardinality(FeasibleEvaluated) >= 2
    /\ \E k \in loop.evaluated : ~DeFeasible(k) /\ DeScore(k) > DeScore(loop.result.x)

\* C24: no trial is built from a member that was replaced earlier in the
\* same generation.
C24_TrialsBuiltFromPreviousGeneration ==
    loop.solver = "de" => ~loop.trial.fromReplaced

C24_Witness ==
    /\ loop.solver = "de"
    /\ loop.pc = "evolve" /\ loop.i > 1
    /\ loop.replaced # {}
    /\ ~loop.trial.fromReplaced

\* C27: population[best_idx] has the least score of the population whenever
\* a mutant is built on it.
C27_BaseVectorIsCurrentBest ==
    loop.solver = "de" => loop.trial.baseIsBest

C27_Witness ==
    /\ loop.solver = "de"
    /\ loop.pc = "evolve" /\ loop.i > 1 /\ loop.iteration >= 1
    /\ loop.trial.baseIsBest

\* C30: the reported n_function_evals is the number of evaluations made,
\* which is n_feasible + n_infeasible, however the loop ended.
C30_ReportedEvaluationsAreActual ==
    DeDone =>
        /\ loop.result.n_function_evals = loop.evals
        /\ loop.evals = loop.n_feasible + loop.n_infeasible

C30_Witness ==
    /\ DeDone
    /\ loop.stop = "converged"
    /\ loop.evals = loop.n_feasible + loop.n_infeasible

\* The two counters do count every evaluation; the reported number misses
\* the initial population, and the generation a break ended.
C30_ReportedMissesInitialPopulation ==
    loop.solver = "de" =>
        /\ loop.evals = loop.n_feasible + loop.n_infeasible
        /\ (loop.pc = "done" /\ loop.stop = "max_iterations") =>
                loop.evals = loop.result.n_function_evals + DePopSize
        /\ (loop.pc = "done" /\ loop.stop \in {"converged", "stalled"}) =>
                loop.evals = loop.result.n_function_evals + 2 * DePopSize

(* C26: the order a solver's objective gives to two candidates *)

SolverObjectiveCalled == call.fn = "solver_objective"

\* The case of the claim: equal constraint violation and a strictly larger
\* payload fraction for the first candidate.
BetterAtEqualViolation ==
    /\ SolverObjectiveCalled
    /\ call.ret.a.violation = call.ret.b.violation
    /\ FGt(call.ret.a.payload, call.ret.b.payload)

\* C26: in every solver, of two candidates with equal constraint violation the
\* one with the strictly larger payload fraction receives the strictly smaller
\* value from the function handed to the minimizer.
C26_ObjectiveOrdersCandidates ==
    BetterAtEqualViolation => FLt(call.ret.a.value, call.ret.b.value)

C26_Witness ==
    /\ BetterAtEqualViolation
    /\ call.ret.solver = "slsqp"
    /\ FGt(call.ret.a.value, call.ret.b.value)

\* The objectives of solve_with_basin_hopping and
\* solve_with_differential_evolution of solvers.py, and those of
\* payload_optimization.py, negate the payload fraction once and order the
\* candidates as the claim says.
C26_SingleNegationOrdersCandidates ==
    (BetterAtEqualViolation /\ call.ret.solver \notin {"slsqp", "pso"}) =>
        FLt(call.ret.a.value, call.ret.b.value)

C26_PsoWitness ==
    /\ BetterAtEqualViolation
    /\ call.ret.solver = "pso"
    /\ FGt(call.ret.a.value, call.ret.b.value)

(* C28: the initial population of the GA set-up *)

GaSetUpCalled == call.fn = "ga_set_up"

\* A slot whose candidate had no cache entry when the set-up began.
UncachedSlot(i) == ~CacheGet(call.ret.before, call.ret.after.population[i]).found

\* C28: when the set-up of solve_with_ga (and of the adaptive GA) has built and
\* sorted its initial population, every slot holds an assigned candidate and a
\* defined fitness, and every member that had no cache entry has been
\* evaluated and stored in the cache.
C28_InitialPopulationEvaluated ==
    GaSetUpCalled =>
        /\ call.ret.after.assigned = 1..SetUpPopSize
        /\ \A i \in 1..SetUpPopSize :
            /\ call.ret.after.fitness[i] # NaN
            /\ UncachedSlot(i) =>
                /\ call.ret.after.population[i] \in call.ret.after.evaluated
                /\ CacheGet(call.ret.after.cache, call.ret.after.population[i]).found

C28_Witness ==
    /\ GaSetUpCalled
    /\ call.arg[2] = <<>>
    /\ call.ret.after.assigned = 1..SetUpPopSize
    /\ \A i \in 1..SetUpPopSize : call.ret.after.fitness[i] = NaN
    /\ call.ret.after.evaluated = {}
    /\ call.ret.after.cache = EmptyCache

\* Every slot is assigned a candidate, and a slot whose candidate is in the
\* cache carries the cached fitness; no set-up evaluates anything.
C28_SlotsAssignedAndCachedFitnessRead ==
    GaSetUpCalled =>
        /\ call.ret.after.assigned = 1..SetUpPopSize
        /\ ~call.ret.after.raised
        /\ call.ret.after.evaluated = {}
        /\ call.ret.after.cache = call.ret.before
        /\ \A i \in 1..SetUpPopSize :
            (call.ret.after.fitness[i] = NaN) <=> UncachedSlot(i)

(* C25, C29: the particle swarm *)

PsoAfterIteration == loop.solver = "pso" /\ loop.iteration > 0

\* The limit np.clip applies to the velocities of dimension d, and the search
\* range of that dimension.
ClampLimit(d)  == loop.v_max
SearchRange(d) == loop.bounds[d][2] - loop.bounds[d][1]

VelocitiesWithinLimit ==
    \A p \in 1..PsoParticles : \A d \in 1..loop.n_var :
        Abs(loop.velocities[p][d]) <= ClampLimit(d)

PositionsWithinBounds ==
    \A p \in 1..PsoParticles : \A d \in 1..loop.n_var :
        /\ loop.bounds[d][1] <= loop.particles[p][d]
        /\ loop.particles[p][d] <= loop.bounds[d][2]

\* The limit is one and the same fraction of every dimension's search range.
LimitIsFractionOfRange ==
    \A d \in 1..loop.n_var : \A e \in 1..loop.n_var :
        ClampLimit(d) * SearchRange(e) = ClampLimit(e) * SearchRange(d)

\* C25: after every PSO iteration every velocity component has magnitude at
\* most the clamp limit, that limit is a fixed fraction of the dimension's
\* search range (max bound minus min bound), and every position component
\* lies within its bounds.
C25_VelocityClampedToRangeFraction ==
    PsoAfterIteration =>
        VelocitiesWithinLimit /\ LimitIsFractionOfRange /\ PositionsWithinBounds

C25_Witness ==
    /\ PsoAfterIteration
    /\ loop.clipped
    /\ SearchRange(1) # SearchRange(2)
    /\ \E p \in 1..PsoParticles : Abs(loop.velocities[p][1]) = ClampLimit(1)

\* The two clips themselves act as the claim says: after every iteration the
\* velocities are within v_max and the positions within the bounds.
C25_VelocitiesAndPositionsClipped ==
    PsoAfterIteration => VelocitiesWithinLimit /\ PositionsWithinBounds

PsoBestsSet == loop.solver = "pso" /\ loop.pc \in {"iterate", "done"}

\* C29: after initialisation and after every iteration gbest_value is the
\* minimum of pbest_values and the objective value of the position gbest
\* holds; it never increases; and the position returned attained the lowest
\* objective value of all positions evaluated.
C29_GbestIsLowestEvaluated ==
    PsoBestsSet =>
        /\ loop.gbest_value = MinOf(loop.pbest_values)
        /\ loop.gbest_value = PsoObjective(GbestPosition(loop.gbest, loop.pbest))
        /\ loop.gbest_value <= loop.previous_gbest_value
        /\ loop.gbest_value \in loop.evaluated
        /\ \A v \in loop.evaluated : loop.gbest_value <= v
        /\ loop.pc = "done" =>
            \A v \in loop.evaluated : PsoObjective(loop.optimal_dv) <= v

C29_Witness ==
    /\ loop.solver = "pso" /\ loop.pc = "done"
    /\ ~loop.gbest.view
    /\ loop.gbest_value < loop.previous_gbest_value
    /\ \E p \in 1..PsoParticles : loop.pbest_values[p] > loop.gbest_value
    /\ \E p \in 1..PsoParticles : loop.pbest[p] # loop.particles[p]

====
